---------------------------- MODULE Spec2Model ----------------------------
(***************************************************************************)
(* Lazy hexagonal percolation grid (Hermetian/unprotected-hex).            *)
(*                                                                         *)
(* The model follows src/unnamed/part_000, the most complete of the three  *)
(* source files (escape search, hex-vs-hex battle, run history).  The      *)
(* codec, the grid store and checkEncirclement are the same code in        *)
(* src/hex.js and src/unnamed/part_001, apart from the points named in the *)
(* comments below.                                                         *)
(*                                                                         *)
(* Scaling.  TLC's integers are 32 bits wide and the program's keys go up  *)
(* to 10^10, and a search to distance 10000 colours 10^8 cells, so the     *)
(* program's numeric constants are scaled down: KEY_OFFSET,                *)
(* ESCAPE_DISTANCE, HVH_ESCAPE_DISTANCE, MAX_UNTESTED_SEARCH and           *)
(* MAX_SPEED_BATCH keep their role and their relations to each other but   *)
(* not their values.  JavaScript numbers are doubles and                   *)
(* every quantity of the program is an integer far below 2^53 (or a        *)
(* multiple of 1/4 below it), so there is no overflow to model.            *)
(*                                                                         *)
(* Scheduling.  JavaScript is single threaded: a handler or an async       *)
(* function runs without interruption until it returns or reaches an       *)
(* await of sleep().  The variable suspended says that the one search task *)
(* is waiting in sleep(); the handlers of the host (click, start, reset,   *)
(* speed, mode) are enabled only when no task is in the middle of a        *)
(* synchronous stretch, i.e. when pc = "idle" or suspended.                *)
(***************************************************************************)
EXTENDS Integers, Sequences, FiniteSets, TLC

VARIABLES
    hexColors,          \* Map numKey -> TRUE (white) / FALSE (black)
    hexInstances,       \* Array of [q, r, color] in insertion order
    startHex,           \* <<>> (null) or <<q, r>>
    isRunning,
    gameMode,           \* "escape" | "hexvshex"
    speedMultiplier,    \* in quarters (4 = 1x); Infinity for the MAX setting
    currentMaxDist,
    startBtnDisabled,   \* startBtn.disabled
    resetBtnDisabled,   \* resetBtn.disabled
    modeSelectDisabled, \* modeSelect.disabled
    runHistory,         \* escape-mode run records
    currentRunId,       \* NoRun (null) or a 0-based index into runHistory
    hvhRunHistory,      \* battle run records
    hvhCurrentRunId,
    statusDiv,          \* what the status line shows: [className, distance]
    pc,                 \* where the search task stands
    suspended,          \* the task waits in sleep()
    esc,                \* the frame of checkEncirclement
    hvh,                \* the frame of hexVsHexCheck
    result,             \* the value the search returned, <<>> before
    probe               \* inputs and outputs of the pure-function harnesses

uiVars   == <<startBtnDisabled, resetBtnDisabled, modeSelectDisabled, statusDiv>>
histVars == <<runHistory, currentRunId, hvhRunHistory, hvhCurrentRunId>>
gridVars == <<hexColors, hexInstances>>
taskVars == <<pc, suspended, esc, hvh, result>>
hostVars == <<startHex, isRunning, gameMode, speedMultiplier, currentMaxDist>>
vars == <<hexColors, hexInstances, startHex, isRunning, gameMode, speedMultiplier,
          currentMaxDist, startBtnDisabled, resetBtnDisabled, modeSelectDisabled,
          runHistory, currentRunId, hvhRunHistory, hvhCurrentRunId, statusDiv,
          pc, suspended, esc, hvh, result, probe>>

-----------------------------------------------------------------------------
(* Bounds of the model and scaled program constants *)

\* KEY_OFFSET = 50000 in the source; KEY_MULTIPLIER = 100000 is twice that.
KEY_OFFSET == 5
KEY_MULTIPLIER == 2 * KEY_OFFSET

\* ESCAPE_DISTANCE = 10000 in checkEncirclement (1000 in src/hex.js).
ESCAPE_DISTANCE == 2

\* ESCAPE_DISTANCE = 10000 in hexVsHexCheck (a second local constant).
HVH_ESCAPE_DISTANCE == 3

\* MAX_UNTESTED_SEARCH = 10000 in isHexTrapped.
MAX_UNTESTED_SEARCH == 4

\* At MAX speed the searches yield every 1000 steps.
MAX_SPEED_BATCH == 3

\* How many runs the history may hold (the source has no limit).
MaxRuns == 1

\* Math.max / Math.abs
Max(a, b) == IF a >= b THEN a ELSE b
Abs(a) == IF a >= 0 THEN a ELSE 0 - a

-----------------------------------------------------------------------------
(* Coordinate codec *)

NEIGHBOR_OFFSETS ==
    << <<1, 0>>, <<1, -1>>, <<0, -1>>, <<-1, 0>>, <<-1, 1>>, <<0, 1>> >>

\* A faulty numKey, the offset of r left out; the round trip tells it apart.
numKeyNoOffset(q, r) == (q + KEY_OFFSET) * KEY_MULTIPLIER + r

numKey(q, r) == (q + KEY_OFFSET) * KEY_MULTIPLIER + (r + KEY_OFFSET)

\* JavaScript's %: the remainder has the sign of the dividend.
JsRem(a, b) == IF a >= 0 THEN a % b ELSE 0 - ((0 - a) % b)

\* Math.floor(key / KEY_MULTIPLIER) is \div, which rounds down.
decodeKey(key) ==
    [q |-> (key \div KEY_MULTIPLIER) - KEY_OFFSET,
     r |-> JsRem(key, KEY_MULTIPLIER) - KEY_OFFSET]

\* The i-th neighbour (i = 0..5) of (q, r), as the loops compute it.
NeighborQ(q, i) == q + NEIGHBOR_OFFSETS[i + 1][1]
NeighborR(r, i) == r + NEIGHBOR_OFFSETS[i + 1][2]
NeighborKey(key, i) ==
    numKey(NeighborQ(decodeKey(key).q, i), NeighborR(decodeKey(key).r, i))

-----------------------------------------------------------------------------
(* Lazy grid store *)

EmptyMap == [k \in {} |-> TRUE]

\* Map.prototype.set
MapSet(m, k, v) == [x \in (DOMAIN m) \cup {k} |-> IF x = k THEN v ELSE m[x]]

ColorNum(c) == IF c THEN 1 ELSE 0

\* A faulty getHexColor that forgets hexColors.set for the colour it draws.
getHexColorUnstored(colors, instances, q, r, rnd) ==
    LET key == numKey(q, r) IN
    IF key \in DOMAIN colors
    THEN [color |-> colors[key], hexColors |-> colors, hexInstances |-> instances]
    ELSE [color |-> rnd,
          hexColors |-> colors,
          hexInstances |-> Append(instances, [q |-> q, r |-> r, color |-> ColorNum(rnd)])]

\* A faulty getHexColor that draws a colour whether the cell is set or not.
getHexColorRedrawn(colors, instances, q, r, rnd) ==
    [color |-> rnd,
     hexColors |-> MapSet(colors, numKey(q, r), rnd),
     hexInstances |-> IF numKey(q, r) \in DOMAIN colors
                      THEN instances
                      ELSE Append(instances, [q |-> q, r |-> r, color |-> ColorNum(rnd)])]

\* getHexColor(q, r) with the outcome rnd of Math.random() < 0.5: the colour
\* returned and the store after the call.
getHexColor(colors, instances, q, r, rnd) ==
    LET key == numKey(q, r) IN
    IF key \in DOMAIN colors
    THEN [color |-> colors[key], hexColors |-> colors, hexInstances |-> instances]
    ELSE [color |-> rnd,
          hexColors |-> MapSet(colors, key, rnd),
          hexInstances |-> Append(instances, [q |-> q, r |-> r, color |-> ColorNum(rnd)])]

\* setHexColor(q, r, isWhite): the store after the call.
setHexColor(colors, instances, q, r, isWhite) ==
    LET key == numKey(q, r)
        isNew == key \notin DOMAIN colors
    IN [hexColors |-> MapSet(colors, key, isWhite),
        hexInstances |-> IF isNew
                         THEN Append(instances, [q |-> q, r |-> r, color |-> ColorNum(isWhite)])
                         ELSE instances]

-----------------------------------------------------------------------------
(* Run history *)

\* null for currentRunId / hvhCurrentRunId
NoRun == 0 - 1

\* startRun(): the history after the push (the new record is the last one).
startRun(history) ==
    Append(history, [escaped |-> "null", distance |-> 0, hexCount |-> 0,
                     interrupted |-> FALSE, inProgress |-> TRUE])

\* runHistory[id] is truthy: id is an index of the array.
HasRecord(history, id) == id # NoRun /\ id + 1 \in DOMAIN history

\* endRun(escaped, distance): the history after the call.
endRun(history, id, escaped, distance, hexCount) ==
    IF HasRecord(history, id)
    THEN [history EXCEPT ![id + 1] =
             [@ EXCEPT !.escaped = IF escaped THEN "true" ELSE "false",
                       !.distance = distance,
                       !.hexCount = hexCount,
                       !.inProgress = FALSE]]
    ELSE history

\* A faulty interruptRun that does not store distanceSoFar.
interruptRunNoDistance(history, id, distanceSoFar, hexCount) ==
    IF HasRecord(history, id)
    THEN [history EXCEPT ![id + 1] =
             [@ EXCEPT !.hexCount = hexCount,
                       !.interrupted = TRUE,
                       !.inProgress = FALSE]]
    ELSE history

\* interruptRun(distanceSoFar): the history after the call.
interruptRun(history, id, distanceSoFar, hexCount) ==
    IF HasRecord(history, id)
    THEN [history EXCEPT ![id + 1] =
             [@ EXCEPT !.distance = distanceSoFar,
                       !.hexCount = hexCount,
                       !.interrupted = TRUE,
                       !.inProgress = FALSE]]
    ELSE history

\* startHvhRun(): the history after the push.
startHvhRun(history) ==
    Append(history, [winner |-> "null", distance |-> 0, hexCount |-> 0,
                     interrupted |-> FALSE, inProgress |-> TRUE])

\* endHvhRun(winner, distance): the history after the call.
endHvhRun(history, id, winner, distance, hexCount) ==
    IF HasRecord(history, id)
    THEN [history EXCEPT ![id + 1] =
             [@ EXCEPT !.winner = winner,
                       !.distance = distance,
                       !.hexCount = hexCount,
                       !.inProgress = FALSE]]
    ELSE history

\* A faulty end of a run that forgets currentRunId = null.
ClosedRunIdKept(history, id) == id

\* endRun, interruptRun, endHvhRun, interruptHvhRun: currentRunId afterwards.
ClosedRunId(history, id) == IF HasRecord(history, id) THEN NoRun ELSE id

-----------------------------------------------------------------------------
(* Host inputs *)

\* Speed.  speedMultiplier is kept in quarters: 0.25 * 2^val is 2^val quarters.
Infinity == 0
SliderValues == {2, 5}
sliderToSpeed(val) == IF val >= 5 THEN Infinity ELSE 2 ^ val

\* The cells a click can land on (pixelToAxial of the pointer position).
ClickCells == {<<0, 0>>, <<-1, 1>>}

GameModes == {"escape", "hexvshex"}

\* The event loop is free: no task is inside a synchronous stretch.
HostTurn == pc = "idle" \/ suspended

-----------------------------------------------------------------------------
(* checkEncirclement *)

EscIdle ==
    [visited |-> {}, queueQ |-> <<>>, queueR |-> <<>>, queueDist |-> <<>>,
     queueHead |-> 0, maxDistReached |-> 0, stepCount |-> 0,
     q |-> 0, r |-> 0, dist |-> 0,
     i |-> 0, exposedCount |-> 0, isMaxSpeed |-> FALSE]

\* The frame after the declarations that precede the while loop.
EscStart(startQ, startR) ==
    [EscIdle EXCEPT !.visited = {numKey(startQ, startR)},
                    !.queueQ = <<startQ>>, !.queueR = <<startR>>,
                    !.queueDist = <<0>>]

\* A faulty test of the threshold: > for >=.
EscReachedBeyond(dist) == dist > ESCAPE_DISTANCE

\* if (dist >= ESCAPE_DISTANCE)
EscReached(dist) == dist >= ESCAPE_DISTANCE

\* return { escaped: true, distance: dist }
EscEscaped(dist) == [escaped |-> TRUE, distance |-> dist]

\* return { escaped: false, distance: maxDistReached }
EscEncircled(maxDistReached) == [escaped |-> FALSE, distance |-> maxDistReached]

\* A faulty distance for a neighbour: two steps for one.
EscChildDistTwo(dist) == dist + 2

\* A faulty child distance: the distance of the parent.
EscChildDistSame(dist) == dist

\* queueDist.push(dist + 1)
EscChildDist(dist) == dist + 1

\* A faulty batch size that divides by the frontier.
BatchSizeShrinking(exposedCount, speed) == Max(1, (20 * speed) \div exposedCount)

\* Math.max(1, Math.floor(exposedCount / 5 * speedMultiplier)); with
\* speedMultiplier = Infinity the value is Infinity.
BatchSize(exposedCount, speed) == Max(1, (exposedCount * speed) \div 20)

\* Does the step that made the count stepCount end in await sleep()?
\* isMaxSpeed is the value read at the dequeue, speed the value read now.
\* delay = baseDelay / speedMultiplier is positive at every finite speed;
\* stepCount % Infinity is stepCount, never 0.
Yields(stepCount, exposedCount, isMaxSpeed, speed) ==
    IF isMaxSpeed
    THEN stepCount % MAX_SPEED_BATCH = 0
    ELSE /\ speed # Infinity
         /\ stepCount % BatchSize(exposedCount, speed) = 0

\* A faulty dequeue that leaves queueHead where it is.
EscSameHead(queueHead) == queueHead

\* queueHead++
EscNextHead(queueHead) == queueHead + 1

\* A faulty update that never raises maxDistReached.
EscMaxDistStale(maxDistReached, dist) == maxDistReached

\* maxDistReached = Math.max(maxDistReached, dist)
EscMaxDist(maxDistReached, dist) == Max(maxDistReached, dist)

\* startEscapeCheck after "await checkEncirclement": endRun, then sleep(0).
EscReturn(res) ==
    /\ result' = res
    /\ runHistory' = endRun(runHistory, currentRunId, res.escaped, res.distance,
                            Len(hexInstances))
    /\ currentRunId' = ClosedRunId(runHistory, currentRunId)
    /\ statusDiv' = [className |-> "", text |-> "Analyzing pockets...", distance |-> 0]
    /\ pc' = "esc_pockets"
    /\ suspended' = TRUE

\* One pass of the while loop up to the for loop: dequeue, or return.
EscDequeue ==
    /\ pc = "esc_while" /\ ~suspended
    /\ IF esc.queueHead < Len(esc.queueQ)
       THEN LET head == EscNextHead(esc.queueHead)
                dist == esc.queueDist[esc.queueHead + 1]
                maxD == EscMaxDist(esc.maxDistReached, dist)
            IN /\ currentMaxDist' = maxD
               /\ esc' = [esc EXCEPT !.q = esc.queueQ[esc.queueHead + 1],
                                     !.r = esc.queueR[esc.queueHead + 1],
                                     !.dist = dist,
                                     !.queueHead = head,
                                     !.maxDistReached = maxD,
                                     !.exposedCount = Len(esc.queueQ) - head + 1,
                                     !.isMaxSpeed = (speedMultiplier = Infinity),
                                     !.i = 0]
               /\ IF EscReached(dist)
                  THEN EscReturn(EscEscaped(dist))
                  ELSE /\ pc' = "esc_for"
                       /\ UNCHANGED <<suspended, result, runHistory, currentRunId, statusDiv>>
       ELSE /\ EscReturn(EscEncircled(esc.maxDistReached))
            /\ UNCHANGED <<esc, currentMaxDist>>
    /\ UNCHANGED <<gridVars, startHex, isRunning, gameMode, speedMultiplier,
                   startBtnDisabled, resetBtnDisabled, modeSelectDisabled,
                   hvhRunHistory, hvhCurrentRunId, hvh, probe>>

\* EscNeighbor enqueuing the neighbour whatever its colour.
EscNeighborEnqueuesAll ==
    /\ pc = "esc_for" /\ ~suspended
    /\ LET nq == NeighborQ(esc.q, esc.i)
           nr == NeighborR(esc.r, esc.i)
           nk == numKey(nq, nr)
           nextPc == IF esc.i + 1 < 6 THEN "esc_for" ELSE "esc_while"
       IN IF nk \in esc.visited
          THEN /\ esc' = [esc EXCEPT !.i = @ + 1]
               /\ pc' = nextPc
               /\ UNCHANGED <<gridVars, suspended>>
          ELSE \E rnd \in BOOLEAN :
               LET got == getHexColor(hexColors, hexInstances, nq, nr, rnd)
                   isWhite == got.color
                   steps == esc.stepCount + 1
               IN /\ hexColors' = got.hexColors
                  /\ hexInstances' = got.hexInstances
                  /\ esc' = [esc EXCEPT
                        !.visited = @ \cup {nk},
                        !.stepCount = steps,
                        !.queueQ = IF TRUE THEN Append(@, nq) ELSE @,
                        !.queueR = IF TRUE THEN Append(@, nr) ELSE @,
                        !.queueDist = IF TRUE THEN Append(@, EscChildDist(esc.dist)) ELSE @,
                        !.i = @ + 1]
                  /\ suspended' = Yields(steps, esc.exposedCount, esc.isMaxSpeed,
                                         speedMultiplier)
                  /\ pc' = nextPc
    /\ UNCHANGED <<startHex, isRunning, gameMode, speedMultiplier, currentMaxDist,
                   uiVars, histVars, hvh, result, probe>>

\* EscNeighbor with the enqueuing of a white cell lost when the step yields.
EscNeighborYieldDrops ==
    /\ pc = "esc_for" /\ ~suspended
    /\ LET nq == NeighborQ(esc.q, esc.i)
           nr == NeighborR(esc.r, esc.i)
           nk == numKey(nq, nr)
           nextPc == IF esc.i + 1 < 6 THEN "esc_for" ELSE "esc_while"
       IN IF nk \in esc.visited
          THEN /\ esc' = [esc EXCEPT !.i = @ + 1]
               /\ pc' = nextPc
               /\ UNCHANGED <<gridVars, suspended>>
          ELSE \E rnd \in BOOLEAN :
               LET got == getHexColor(hexColors, hexInstances, nq, nr, rnd)
                   isWhite == got.color
                   steps == esc.stepCount + 1
                   yields == Yields(steps, esc.exposedCount, esc.isMaxSpeed,
                                    speedMultiplier)
               IN /\ hexColors' = got.hexColors
                  /\ hexInstances' = got.hexInstances
                  /\ esc' = [esc EXCEPT
                        !.visited = @ \cup {nk},
                        !.stepCount = steps,
                        !.queueQ = IF isWhite /\ ~yields THEN Append(@, nq) ELSE @,
                        !.queueR = IF isWhite /\ ~yields THEN Append(@, nr) ELSE @,
                        !.queueDist = IF isWhite /\ ~yields THEN Append(@, EscChildDist(esc.dist)) ELSE @,
                        !.i = @ + 1]
                  /\ suspended' = Yields(steps, esc.exposedCount, esc.isMaxSpeed,
                                         speedMultiplier)
                  /\ pc' = nextPc
    /\ UNCHANGED <<startHex, isRunning, gameMode, speedMultiplier, currentMaxDist,
                   uiVars, histVars, hvh, result, probe>>

\* One pass of the for loop: neighbour esc.i of the dequeued cell.
EscNeighbor ==
    /\ pc = "esc_for" /\ ~suspended
    /\ LET nq == NeighborQ(esc.q, esc.i)
           nr == NeighborR(esc.r, esc.i)
           nk == numKey(nq, nr)
           nextPc == IF esc.i + 1 < 6 THEN "esc_for" ELSE "esc_while"
       IN IF nk \in esc.visited
          THEN /\ esc' = [esc EXCEPT !.i = @ + 1]
               /\ pc' = nextPc
               /\ UNCHANGED <<gridVars, suspended>>
          ELSE \E rnd \in BOOLEAN :
               LET got == getHexColor(hexColors, hexInstances, nq, nr, rnd)
                   isWhite == got.color
                   steps == esc.stepCount + 1
               IN /\ hexColors' = got.hexColors
                  /\ hexInstances' = got.hexInstances
                  /\ esc' = [esc EXCEPT
                        !.visited = @ \cup {nk},
                        !.stepCount = steps,
                        !.queueQ = IF isWhite THEN Append(@, nq) ELSE @,
                        !.queueR = IF isWhite THEN Append(@, nr) ELSE @,
                        !.queueDist = IF isWhite THEN Append(@, EscChildDist(esc.dist)) ELSE @,
                        !.i = @ + 1]
                  /\ suspended' = Yields(steps, esc.exposedCount, esc.isMaxSpeed,
                                         speedMultiplier)
                  /\ pc' = nextPc
    /\ UNCHANGED <<startHex, isRunning, gameMode, speedMultiplier, currentMaxDist,
                   uiVars, histVars, hvh, result, probe>>

\* A faulty end of startCheck that enables the start button again.
EscPocketsEnablesStart ==
    /\ pc = "esc_pockets" /\ ~suspended
    /\ statusDiv' = [className |-> IF result.escaped THEN "escaped" ELSE "encircled",
                     text |-> IF result.escaped THEN "ESCAPED" ELSE "ENCIRCLED",
                     distance |-> result.distance]
    /\ isRunning' = FALSE
    /\ resetBtnDisabled' = FALSE
    /\ startBtnDisabled' = FALSE
    /\ pc' = "idle"
    /\ esc' = EscIdle
    /\ result' = <<>>
    /\ UNCHANGED <<gridVars, startHex, gameMode, speedMultiplier, currentMaxDist,
                   modeSelectDisabled, histVars, suspended, hvh, probe>>

\* startEscapeCheck after "await sleep(0)", and the end of startCheck.
\* findEncircledPockets reads hexColors and writes nothing; what it returns
\* goes into the status text only, which is kept here without it.
EscPockets ==
    /\ pc = "esc_pockets" /\ ~suspended
    /\ statusDiv' = [className |-> IF result.escaped THEN "escaped" ELSE "encircled",
                     text |-> IF result.escaped THEN "ESCAPED" ELSE "ENCIRCLED",
                     distance |-> result.distance]
    /\ isRunning' = FALSE
    /\ resetBtnDisabled' = FALSE
    /\ pc' = "idle"
    /\ esc' = EscIdle
    /\ result' = <<>>
    /\ UNCHANGED <<gridVars, startHex, gameMode, speedMultiplier, currentMaxDist,
                   startBtnDisabled, modeSelectDisabled, histVars, suspended, hvh, probe>>

\* The timer of sleep() fires and the task goes on.
Resume ==
    /\ suspended
    /\ suspended' = FALSE
    /\ UNCHANGED <<gridVars, startHex, isRunning, gameMode, speedMultiplier,
                   currentMaxDist, uiVars, histVars, pc, esc, hvh, result, probe>>

-----------------------------------------------------------------------------
(* Hex vs Hex: distance, angle, selection *)

\* hexDist(q, r); the sum is even, so the division is exact.
hexDist(q, r) == (Abs(q) + Abs(r) + Abs(0 - q - r)) \div 2

\* clockwiseAngle(q, r) = (4 pi - atan2(y, x)) % (2 pi) with x = q + r/2 and
\* y = r * sqrt(3)/2, kept exactly: the quarter of the turn the angle lies in
\* (0: angle 0, y = 0 and x >= 0; 1: 0 < angle < pi, y < 0; 2: angle pi,
\* y = 0 and x < 0; 3: pi < angle < 2 pi, y > 0) and the direction (2x, r).
\* Two angles of one sector compare by the sign of the cross product, in which
\* the factor sqrt(3) cancels.  Floating-point rounding is left out: lattice
\* points of one ring differ in angle by more than 1/hexDist.
clockwiseAngle(q, r) ==
    [sector |-> IF r = 0 THEN (IF 2 * q + r >= 0 THEN 0 ELSE 2)
                ELSE IF r < 0 THEN 1 ELSE 3,
     x2 |-> 2 * q + r,
     y |-> r]

\* let bestAngle = -1: below every angle
NoAngle == [sector |-> 0 - 1, x2 |-> 1, y |-> 0]

\* a > b on angles
AngleGreater(a, b) ==
    \/ a.sector > b.sector
    \/ a.sector = b.sector /\ a.x2 * b.y - a.y * b.x2 > 0

\* A faulty comparison without the angle: of a tie the cell enumerated last wins.
SelectBetterNoAngle(dist, angle, bestDist, bestAngle) == dist >= bestDist

\* if (dist > bestDist || (dist === bestDist && angle > bestAngle))
SelectBetter(dist, angle, bestDist, bestAngle) ==
    \/ dist > bestDist
    \/ dist = bestDist /\ AngleGreater(angle, bestAngle)

\* The state of the for loop of selectNextFrontierHex.
SelectStates ==
    [n : Nat, key : Int, dist : Int, angle : [sector : Int, x2 : Int, y : Int]]

\* bestKey = null
NoKey == 0 - 1

\* selectNextFrontierHex(frontier); frontier is the Set in enumeration order,
\* scan[st] the value returned when the loop stands before element st.n.
selectNextFrontierHex(frontier) ==
    LET scan[st \in SelectStates] ==
            IF st.n > Len(frontier) THEN st.key
            ELSE LET key == frontier[st.n]
                     c == decodeKey(key)
                     dist == hexDist(c.q, c.r)
                     angle == clockwiseAngle(c.q, c.r)
                 IN IF SelectBetter(dist, angle, st.dist, st.angle)
                    THEN scan[[n |-> st.n + 1, key |-> key, dist |-> dist, angle |-> angle]]
                    ELSE scan[[st EXCEPT !.n = @ + 1]]
    IN scan[[n |-> 1, key |-> NoKey, dist |-> 0 - 1, angle |-> NoAngle]]

-----------------------------------------------------------------------------
(* Hex vs Hex: trapped-region detector *)

\* The members of a Set or array kept as a sequence.
Members(seq) == {seq[n] : n \in DOMAIN seq}

\* A Map lookup that is undefined for a missing key.
HasColor(colors, key, color) == key \in DOMAIN colors /\ colors[key] = color

\* The state of a loop over a queue: head cells are done and neighbour i of
\* the next one is up.  A function named visit is the for loop over the six
\* neighbours of one cell, from neighbour i on.
QueueStates == [queue : Seq(Int), head : Nat, i : 0..6]

\* Step 1 of isHexTrapped: sameColorQueue when the while loop ends.
SameColorFill(colors, startKey) ==
    LET startColor == colors[startKey]
        visit[st \in QueueStates] ==
            IF st.i = 6 THEN st.queue
            ELSE LET nk == NeighborKey(st.queue[st.head + 1], st.i)
                 IN IF nk \notin Members(st.queue) /\ HasColor(colors, nk, startColor)
                    THEN visit[[st EXCEPT !.queue = Append(@, nk), !.i = @ + 1]]
                    ELSE visit[[st EXCEPT !.i = @ + 1]]
        fill[st \in QueueStates] ==
            IF st.head >= Len(st.queue) THEN st.queue
            ELSE fill[[queue |-> visit[st], head |-> st.head + 1, i |-> 0]]
    IN fill[[queue |-> <<startKey>>, head |-> 0, i |-> 0]]

\* A faulty step 2 that takes every neighbour of the region, set or not.
UntestedFrontierAnyNeighbour(colors, region) ==
    LET visit[st \in QueueStates] ==
            IF st.i = 6 THEN st.queue
            ELSE LET nk == NeighborKey(region[st.head + 1], st.i)
                 IN IF nk \notin Members(st.queue)
                    THEN visit[[st EXCEPT !.queue = Append(@, nk), !.i = @ + 1]]
                    ELSE visit[[st EXCEPT !.i = @ + 1]]
        scan[st \in QueueStates] ==
            IF st.head >= Len(region) THEN st.queue
            ELSE scan[[queue |-> visit[st], head |-> st.head + 1, i |-> 0]]
    IN scan[[queue |-> <<>>, head |-> 0, i |-> 0]]

\* Step 2 of isHexTrapped: untestedFrontier in insertion order.  In a state,
\* queue is the frontier and head counts the cells of the region done.
UntestedFrontier(colors, region) ==
    LET visit[st \in QueueStates] ==
            IF st.i = 6 THEN st.queue
            ELSE LET nk == NeighborKey(region[st.head + 1], st.i)
                 IN IF nk \notin DOMAIN colors /\ nk \notin Members(st.queue)
                    THEN visit[[st EXCEPT !.queue = Append(@, nk), !.i = @ + 1]]
                    ELSE visit[[st EXCEPT !.i = @ + 1]]
        scan[st \in QueueStates] ==
            IF st.head >= Len(region) THEN st.queue
            ELSE scan[[queue |-> visit[st], head |-> st.head + 1, i |-> 0]]
    IN scan[[queue |-> <<>>, head |-> 0, i |-> 0]]

\* A faulty test that lets a cell at distance maxDist pass.
CanEscapeBeyond(q, r, maxDist) == hexDist(q, r) > maxDist

\* if (hexDist(q, r) >= maxDist) in step 3
CanEscape(q, r, maxDist) == hexDist(q, r) >= maxDist

\* Step 3 of isHexTrapped: the while loop with its for loop, up to the return
\* taken: "escape" inside the loop, "budget" and "drained" behind it, with the
\* queue and head at that return.
UntestedSearchEnd(colors, maxDist, frontier) ==
    LET visit[st \in QueueStates] ==
            IF st.i = 6 THEN st.queue
            ELSE LET nk == NeighborKey(st.queue[st.head + 1], st.i)
                 IN IF nk \notin Members(st.queue) /\ nk \notin DOMAIN colors
                    THEN visit[[st EXCEPT !.queue = Append(@, nk), !.i = @ + 1]]
                    ELSE visit[[st EXCEPT !.i = @ + 1]]
        search[st \in QueueStates] ==
            IF st.head < Len(st.queue) /\ st.head < MAX_UNTESTED_SEARCH
            THEN LET c == decodeKey(st.queue[st.head + 1])
                 IN IF CanEscape(c.q, c.r, maxDist)
                    THEN [exit |-> "escape", queue |-> st.queue, head |-> st.head + 1]
                    ELSE search[[queue |-> visit[st], head |-> st.head + 1, i |-> 0]]
            ELSE IF st.head >= MAX_UNTESTED_SEARCH
            THEN [exit |-> "budget", queue |-> st.queue, head |-> st.head]
            ELSE [exit |-> "drained", queue |-> st.queue, head |-> st.head]
    IN search[[queue |-> frontier, head |-> 0, i |-> 0]]

\* A faulty step 3 without the return behind "if (head >= MAX_UNTESTED_SEARCH)".
UntestedSearchNoBudget(colors, maxDist, frontier) ==
    UntestedSearchEnd(colors, maxDist, frontier).exit # "escape"

\* The value step 3 returns.
UntestedSearch(colors, maxDist, frontier) ==
    UntestedSearchEnd(colors, maxDist, frontier).exit = "drained"

\* A faulty detector that holds a region trapped only when it is sealed.
TrappedOnlySealed(colors, maxDist, frontier) == Len(frontier) = 0

\* The part of isHexTrapped behind step 2.
TrappedFromFrontier(colors, maxDist, frontier) ==
    IF Len(frontier) = 0 THEN TRUE
    ELSE UntestedSearch(colors, maxDist, frontier)

\* isHexTrapped(startQ, startR, maxDist)
isHexTrapped(colors, startQ, startR, maxDist) ==
    LET startKey == numKey(startQ, startR) IN
    IF startKey \notin DOMAIN colors THEN FALSE
    ELSE \A region \in {SameColorFill(colors, startKey)} :
         \A frontier \in {UntestedFrontier(colors, region)} :
            TrappedFromFrontier(colors, maxDist, frontier)

-----------------------------------------------------------------------------
(* Hex vs Hex: frontiers *)

\* getTouchedColors(q, r)
getTouchedColors(colors, q, r) ==
    [touchesWhite |-> \E i \in 0..5 :
                         HasColor(colors, numKey(NeighborQ(q, i), NeighborR(r, i)), TRUE),
     touchesBlack |-> \E i \in 0..5 :
                         HasColor(colors, numKey(NeighborQ(q, i), NeighborR(r, i)), FALSE)]

\* A faulty chain, "if" for the first "else if": a cell that touches both
\* colours is added to whiteFrontier as well.
FrontierClassifyNoElse(acc, nk, t) ==
    IF t.touchesWhite /\ t.touchesBlack
    THEN [acc EXCEPT !.seen = @ \cup {nk}, !.boundary = Append(@, nk),
                     !.whiteFrontier = Append(@, nk)]
    ELSE IF t.touchesWhite
    THEN [acc EXCEPT !.seen = @ \cup {nk}, !.whiteFrontier = Append(@, nk)]
    ELSE IF t.touchesBlack
    THEN [acc EXCEPT !.seen = @ \cup {nk}, !.blackFrontier = Append(@, nk)]
    ELSE [acc EXCEPT !.seen = @ \cup {nk}]

\* The if / else if chain of getFrontiers for one unseen unset neighbour.
FrontierClassify(acc, nk, t) ==
    IF t.touchesWhite /\ t.touchesBlack
    THEN [acc EXCEPT !.seen = @ \cup {nk}, !.boundary = Append(@, nk)]
    ELSE IF t.touchesWhite
    THEN [acc EXCEPT !.seen = @ \cup {nk}, !.whiteFrontier = Append(@, nk)]
    ELSE IF t.touchesBlack
    THEN [acc EXCEPT !.seen = @ \cup {nk}, !.blackFrontier = Append(@, nk)]
    ELSE [acc EXCEPT !.seen = @ \cup {nk}]

\* The state of the two nested loops of getFrontiers: entry n of hexColors
\* and its neighbour i are up.
FrontierStates ==
    [n : Nat, i : 0..6, boundary : Seq(Int), whiteFrontier : Seq(Int),
     blackFrontier : Seq(Int), seen : SUBSET Int]

\* return { boundary, whiteFrontier, blackFrontier }
FrontierResult(acc) ==
    [boundary |-> acc.boundary,
     whiteFrontier |-> acc.whiteFrontier,
     blackFrontier |-> acc.blackFrontier]

\* getFrontiers(); keys are the keys of hexColors in insertion order, and each
\* of the three Sets is returned in insertion order.
getFrontiers(colors, keys) ==
    LET visit[st \in FrontierStates] ==
            IF st.i = 6 THEN st
            ELSE LET c == decodeKey(keys[st.n])
                     nq == NeighborQ(c.q, st.i)
                     nr == NeighborR(c.r, st.i)
                     nk == numKey(nq, nr)
                 IN IF nk \in DOMAIN colors \/ nk \in st.seen
                    THEN visit[[st EXCEPT !.i = @ + 1]]
                    ELSE visit[[FrontierClassify(st, nk, getTouchedColors(colors, nq, nr))
                                  EXCEPT !.i = @ + 1]]
        scan[st \in FrontierStates] ==
            IF st.n > Len(keys) THEN FrontierResult(st)
            ELSE scan[[visit[st] EXCEPT !.n = @ + 1, !.i = 0]]
    IN scan[[n |-> 1, i |-> 0, boundary |-> <<>>, whiteFrontier |-> <<>>,
             blackFrontier |-> <<>>, seen |-> {}]]

\* The keys of hexColors in insertion order: every insertion into hexColors
\* also pushes the cell to hexInstances, and both are cleared together.
MapKeys(instances) == [n \in DOMAIN instances |-> numKey(instances[n].q, instances[n].r)]

-----------------------------------------------------------------------------
(* hexVsHexCheck *)

HvhIdle ==
    [whiteStartQ |-> 0, whiteStartR |-> 0, blackStartQ |-> 0, blackStartR |-> 0,
     stepCount |-> 0, maxDistReached |-> 0]

\* The frame after the declarations that precede the loop.
HvhStart(startQ, startR) ==
    [whiteStartQ |-> startQ, whiteStartR |-> startR,
     blackStartQ |-> startQ + 1, blackStartR |-> startR,
     stepCount |-> 0, maxDistReached |-> 0]

\* A faulty verdict that names the trapped colour the winner.
HvhRoundVerdictSwapped(whiteTrapped, blackTrapped, maxDistReached) ==
    IF whiteTrapped /\ ~blackTrapped
    THEN [winner |-> "white", distance |-> maxDistReached]
    ELSE IF blackTrapped /\ ~whiteTrapped
    THEN [winner |-> "black", distance |-> maxDistReached]
    ELSE IF whiteTrapped /\ blackTrapped
    THEN [winner |-> "unresolved", distance |-> maxDistReached]
    ELSE <<>>

\* if (whiteTrapped && !blackTrapped) ... else if ... inside the loop: the
\* value returned, or <<>> when the loop goes on.
HvhRoundVerdict(whiteTrapped, blackTrapped, maxDistReached) ==
    IF whiteTrapped /\ ~blackTrapped
    THEN [winner |-> "black", distance |-> maxDistReached]
    ELSE IF blackTrapped /\ ~whiteTrapped
    THEN [winner |-> "white", distance |-> maxDistReached]
    ELSE IF whiteTrapped /\ blackTrapped
    THEN [winner |-> "unresolved", distance |-> maxDistReached]
    ELSE <<>>

\* A faulty end of the battle that never names a winner.
HvhFinalUnresolved(whiteTrapped, blackTrapped, maxDistReached) ==
    [winner |-> "unresolved", distance |-> maxDistReached]

\* The returns behind the loop ("Frontier exhausted").
HvhFinalVerdict(whiteTrapped, blackTrapped, maxDistReached) ==
    IF whiteTrapped /\ ~blackTrapped
    THEN [winner |-> "black", distance |-> maxDistReached]
    ELSE IF blackTrapped /\ ~whiteTrapped
    THEN [winner |-> "white", distance |-> maxDistReached]
    ELSE [winner |-> "unresolved", distance |-> maxDistReached]

\* A faulty battle without its distance limit.
HvhNeverReached(maxDistReached) == FALSE

\* A faulty distance limit that lets the battle colour a cell at the limit.
HvhReachedBeyond(maxDistReached) == maxDistReached > HVH_ESCAPE_DISTANCE

\* if (maxDistReached >= ESCAPE_DISTANCE)
HvhReached(maxDistReached) == maxDistReached >= HVH_ESCAPE_DISTANCE

\* startHvhCheck after "await hexVsHexCheck" and the end of startCheck;
\* instances is hexInstances at the return.
HvhReturn(res, instances) ==
    /\ hvhRunHistory' = endHvhRun(hvhRunHistory, hvhCurrentRunId, res.winner,
                                  res.distance, Len(instances))
    /\ hvhCurrentRunId' = ClosedRunId(hvhRunHistory, hvhCurrentRunId)
    /\ statusDiv' = [className |-> IF res.winner = "white" THEN "escaped"
                                   ELSE IF res.winner = "black" THEN "encircled"
                                   ELSE "",
                     text |-> IF res.winner = "white" THEN "WHITE WINS"
                              ELSE IF res.winner = "black" THEN "BLACK WINS"
                              ELSE "UNRESOLVED",
                     distance |-> res.distance]
    /\ isRunning' = FALSE
    /\ resetBtnDisabled' = FALSE
    /\ pc' = "idle"
    /\ suspended' = FALSE
    /\ hvh' = HvhIdle
    /\ result' = res

\* The loop body after the two isHexTrapped calls: return the verdict, or
\* go on to "Rendering and delays".
HvhDecide(boundary, instances, maxD, steps, verdict) ==
    IF verdict # <<>>
    THEN HvhReturn(verdict, instances)
    ELSE /\ hvh' = [hvh EXCEPT !.stepCount = steps, !.maxDistReached = maxD]
         /\ suspended' = Yields(steps, Len(boundary) + 1,
                                speedMultiplier = Infinity, speedMultiplier)
         /\ UNCHANGED <<pc, result, hvhRunHistory, hvhCurrentRunId,
                        statusDiv, isRunning, resetBtnDisabled>>

\* The loop body from "Check distance limit" on: colors and instances are the
\* store with the new cell, maxD and steps the updated counters.
HvhJudge(boundary, colors, instances, maxD, steps) ==
    /\ hexColors' = colors
    /\ hexInstances' = instances
    /\ currentMaxDist' = maxD
    /\ IF HvhReached(maxD)
       THEN HvhReturn([winner |-> "unresolved", distance |-> maxD], instances)
       ELSE \E whiteTrapped \in {isHexTrapped(colors, hvh.whiteStartQ, hvh.whiteStartR,
                                              HVH_ESCAPE_DISTANCE)} :
            \E blackTrapped \in {isHexTrapped(colors, hvh.blackStartQ, hvh.blackStartR,
                                              HVH_ESCAPE_DISTANCE)} :
            \E verdict \in {HvhRoundVerdict(whiteTrapped, blackTrapped, maxD)} :
               HvhDecide(boundary, instances, maxD, steps, verdict)

\* The loop body from decodeKey(nextKey) to the update of the counters.
HvhColour(boundary, nextKey, isWhite) ==
    \E c \in {decodeKey(nextKey)} :
    \E colors \in {MapSet(hexColors, nextKey, isWhite)} :
    \E instances \in {Append(hexInstances,
                             [q |-> c.q, r |-> c.r, color |-> ColorNum(isWhite)])} :
    \E maxD \in {Max(hvh.maxDistReached, hexDist(c.q, c.r))} :
        HvhJudge(boundary, colors, instances, maxD, hvh.stepCount + 1)

\* The code behind the loop.
HvhExhausted ==
    /\ \E whiteTrapped \in {isHexTrapped(hexColors, hvh.whiteStartQ, hvh.whiteStartR,
                                         HVH_ESCAPE_DISTANCE)} :
       \E blackTrapped \in {isHexTrapped(hexColors, hvh.blackStartQ, hvh.blackStartR,
                                         HVH_ESCAPE_DISTANCE)} :
       \E verdict \in {HvhFinalVerdict(whiteTrapped, blackTrapped, hvh.maxDistReached)} :
          HvhReturn(verdict, hexInstances)
    /\ UNCHANGED <<gridVars, currentMaxDist>>

\* A faulty round that takes its cell from whiteFrontier.
HvhRoundWhiteFrontier ==
    /\ pc = "hvh_loop" /\ ~suspended
    /\ \E keys \in {MapKeys(hexInstances)} :
       \E boundary \in {getFrontiers(hexColors, keys).whiteFrontier} :
       \E nextKey \in {selectNextFrontierHex(boundary)} :
          IF Len(boundary) = 0 \/ nextKey = NoKey
          THEN HvhExhausted
          ELSE \E isWhite \in BOOLEAN : HvhColour(boundary, nextKey, isWhite)
    /\ UNCHANGED <<startHex, gameMode, speedMultiplier, startBtnDisabled,
                   modeSelectDisabled, runHistory, currentRunId, esc, probe>>

\* One pass of the while (true) loop, or the code behind the loop.
HvhRound ==
    /\ pc = "hvh_loop" /\ ~suspended
    /\ \E keys \in {MapKeys(hexInstances)} :
       \E boundary \in {getFrontiers(hexColors, keys).boundary} :
       \E nextKey \in {selectNextFrontierHex(boundary)} :
          IF Len(boundary) = 0 \/ nextKey = NoKey
          THEN HvhExhausted
          ELSE \E isWhite \in BOOLEAN : HvhColour(boundary, nextKey, isWhite)
    /\ UNCHANGED <<startHex, gameMode, speedMultiplier, startBtnDisabled,
                   modeSelectDisabled, runHistory, currentRunId, esc, probe>>

-----------------------------------------------------------------------------
(* Handlers *)

\* A faulty handleClick without its two guards.
HandleClickAlways(hex) ==
    /\ HostTurn
    /\ LET one == setHexColor(hexColors, hexInstances, hex[1], hex[2], TRUE)
           two == setHexColor(one.hexColors, one.hexInstances,
                              hex[1] + 1, hex[2], FALSE)
           after == IF gameMode = "hexvshex" THEN two ELSE one
       IN /\ startHex' = hex
          /\ hexColors' = after.hexColors
          /\ hexInstances' = after.hexInstances
          /\ startBtnDisabled' = FALSE
    /\ UNCHANGED <<isRunning, gameMode, speedMultiplier, currentMaxDist,
                   resetBtnDisabled, modeSelectDisabled, statusDiv, histVars,
                   taskVars, probe>>

\* A faulty handleClick that selects an origin although one is selected.
HandleClickAgain(hex) ==
    /\ HostTurn
    /\ IF ~isRunning
       THEN LET one == setHexColor(hexColors, hexInstances, hex[1], hex[2], TRUE)
                two == setHexColor(one.hexColors, one.hexInstances,
                                   hex[1] + 1, hex[2], FALSE)
                after == IF gameMode = "hexvshex" THEN two ELSE one
            IN /\ startHex' = hex
               /\ hexColors' = after.hexColors
               /\ hexInstances' = after.hexInstances
               /\ startBtnDisabled' = FALSE
       ELSE UNCHANGED <<startHex, gridVars, startBtnDisabled>>
    /\ UNCHANGED <<isRunning, gameMode, speedMultiplier, currentMaxDist,
                   resetBtnDisabled, modeSelectDisabled, statusDiv, histVars,
                   taskVars, probe>>

\* handleClick with pixelToAxial(pointer) = hex.
HandleClick(hex) ==
    /\ HostTurn
    /\ IF ~isRunning /\ startHex = <<>>
       THEN LET one == setHexColor(hexColors, hexInstances, hex[1], hex[2], TRUE)
                two == setHexColor(one.hexColors, one.hexInstances,
                                   hex[1] + 1, hex[2], FALSE)
                after == IF gameMode = "hexvshex" THEN two ELSE one
            IN /\ startHex' = hex
               /\ hexColors' = after.hexColors
               /\ hexInstances' = after.hexInstances
               /\ startBtnDisabled' = FALSE
       ELSE UNCHANGED <<startHex, gridVars, startBtnDisabled>>
    /\ UNCHANGED <<isRunning, gameMode, speedMultiplier, currentMaxDist,
                   resetBtnDisabled, modeSelectDisabled, statusDiv, histVars,
                   taskVars, probe>>

\* A faulty startCheck without its guards: the button stays enabled and
\* isRunning is not tested.
startCheckUnguarded ==
    /\ HostTurn
    /\ startHex # <<>>
    /\ isRunning' = TRUE
    /\ currentMaxDist' = 0
    /\ startBtnDisabled' = TRUE
    /\ resetBtnDisabled' = TRUE
    /\ modeSelectDisabled' = TRUE
    /\ statusDiv' = [statusDiv EXCEPT !.className = ""]
    /\ suspended' = FALSE
    /\ IF gameMode = "hexvshex"
       THEN /\ hvhCurrentRunId' = Len(hvhRunHistory)
            /\ hvhRunHistory' = startHvhRun(hvhRunHistory)
            /\ hvh' = HvhStart(startHex[1], startHex[2])
            /\ pc' = "hvh_loop"
            /\ UNCHANGED <<runHistory, currentRunId, esc>>
       ELSE /\ currentRunId' = Len(runHistory)
            /\ runHistory' = startRun(runHistory)
            /\ esc' = EscStart(startHex[1], startHex[2])
            /\ pc' = "esc_while"
            /\ UNCHANGED <<hvhRunHistory, hvhCurrentRunId, hvh>>
    /\ UNCHANGED <<gridVars, startHex, gameMode, speedMultiplier, result, probe>>

\* startCheck, startEscapeCheck / startHvhCheck and the declarations of the
\* search, up to its loop.  A click reaches the handler only while the
\* button is enabled.
startCheck ==
    /\ HostTurn
    /\ ~startBtnDisabled
    /\ startHex # <<>> /\ ~isRunning
    /\ isRunning' = TRUE
    /\ currentMaxDist' = 0
    /\ startBtnDisabled' = TRUE
    /\ resetBtnDisabled' = TRUE
    /\ modeSelectDisabled' = TRUE
    /\ statusDiv' = [statusDiv EXCEPT !.className = ""]
    /\ suspended' = FALSE
    /\ IF gameMode = "hexvshex"
       THEN /\ hvhCurrentRunId' = Len(hvhRunHistory)
            /\ hvhRunHistory' = startHvhRun(hvhRunHistory)
            /\ hvh' = HvhStart(startHex[1], startHex[2])
            /\ pc' = "hvh_loop"
            /\ UNCHANGED <<runHistory, currentRunId, esc>>
       ELSE /\ currentRunId' = Len(runHistory)
            /\ runHistory' = startRun(runHistory)
            /\ esc' = EscStart(startHex[1], startHex[2])
            /\ pc' = "esc_while"
            /\ UNCHANGED <<hvhRunHistory, hvhCurrentRunId, hvh>>
    /\ UNCHANGED <<gridVars, startHex, gameMode, speedMultiplier, result, probe>>

\* A click on the start button, while the history holds fewer than MaxRuns
\* runs.
StartCheck == Len(runHistory) + Len(hvhRunHistory) < MaxRuns /\ startCheck

\* A faulty reset that forgets hexInstances.length = 0.
resetKeepsInstances(mode) ==
    /\ runHistory' = IF isRunning /\ mode = "escape"
                     THEN interruptRun(runHistory, currentRunId, currentMaxDist,
                                       Len(hexInstances))
                     ELSE runHistory
    /\ currentRunId' = IF isRunning /\ mode = "escape"
                       THEN ClosedRunId(runHistory, currentRunId)
                       ELSE currentRunId
    /\ hvhRunHistory' = IF isRunning /\ mode # "escape"
                        THEN interruptRun(hvhRunHistory, hvhCurrentRunId,
                                          currentMaxDist, Len(hexInstances))
                        ELSE hvhRunHistory
    /\ hvhCurrentRunId' = IF isRunning /\ mode # "escape"
                          THEN ClosedRunId(hvhRunHistory, hvhCurrentRunId)
                          ELSE hvhCurrentRunId
    /\ hexColors' = EmptyMap
    /\ hexInstances' = hexInstances
    /\ startHex' = <<>>
    /\ isRunning' = FALSE
    /\ startBtnDisabled' = TRUE
    /\ modeSelectDisabled' = FALSE
    /\ statusDiv' = [className |-> "", text |-> "", distance |-> 0]

\* A faulty reset that forgets hexColors.clear().
resetKeepsColors(mode) ==
    /\ runHistory' = IF isRunning /\ mode = "escape"
                     THEN interruptRun(runHistory, currentRunId, currentMaxDist,
                                       Len(hexInstances))
                     ELSE runHistory
    /\ currentRunId' = IF isRunning /\ mode = "escape"
                       THEN ClosedRunId(runHistory, currentRunId)
                       ELSE currentRunId
    /\ hvhRunHistory' = IF isRunning /\ mode # "escape"
                        THEN interruptRun(hvhRunHistory, hvhCurrentRunId,
                                          currentMaxDist, Len(hexInstances))
                        ELSE hvhRunHistory
    /\ hvhCurrentRunId' = IF isRunning /\ mode # "escape"
                          THEN ClosedRunId(hvhRunHistory, hvhCurrentRunId)
                          ELSE hvhCurrentRunId
    /\ hexColors' = hexColors
    /\ hexInstances' = <<>>
    /\ startHex' = <<>>
    /\ isRunning' = FALSE
    /\ startBtnDisabled' = TRUE
    /\ modeSelectDisabled' = FALSE
    /\ statusDiv' = [className |-> "", text |-> "", distance |-> 0]

\* reset(), with mode the value of gameMode when it is called.
reset(mode) ==
    /\ runHistory' = IF isRunning /\ mode = "escape"
                     THEN interruptRun(runHistory, currentRunId, currentMaxDist,
                                       Len(hexInstances))
                     ELSE runHistory
    /\ currentRunId' = IF isRunning /\ mode = "escape"
                       THEN ClosedRunId(runHistory, currentRunId)
                       ELSE currentRunId
    /\ hvhRunHistory' = IF isRunning /\ mode # "escape"
                        THEN interruptRun(hvhRunHistory, hvhCurrentRunId,
                                          currentMaxDist, Len(hexInstances))
                        ELSE hvhRunHistory
    /\ hvhCurrentRunId' = IF isRunning /\ mode # "escape"
                          THEN ClosedRunId(hvhRunHistory, hvhCurrentRunId)
                          ELSE hvhCurrentRunId
    /\ hexColors' = EmptyMap
    /\ hexInstances' = <<>>
    /\ startHex' = <<>>
    /\ isRunning' = FALSE
    /\ startBtnDisabled' = TRUE
    /\ modeSelectDisabled' = FALSE
    /\ statusDiv' = [className |-> "", text |-> "", distance |-> 0]

\* A faulty reset button that is not disabled while a search runs.
ResetAnytime ==
    /\ HostTurn
    /\ reset(gameMode)
    /\ UNCHANGED <<gameMode, speedMultiplier, currentMaxDist, resetBtnDisabled,
                   taskVars, probe>>

\* A click on the reset button.
Reset ==
    /\ HostTurn
    /\ ~resetBtnDisabled
    /\ reset(gameMode)
    /\ UNCHANGED <<gameMode, speedMultiplier, currentMaxDist, resetBtnDisabled,
                   taskVars, probe>>

\* The change handler of the mode selector.
SetMode(mode) ==
    /\ HostTurn
    /\ ~modeSelectDisabled
    /\ mode # gameMode
    /\ ~isRunning
    /\ gameMode' = mode
    /\ reset(mode)
    /\ UNCHANGED <<speedMultiplier, currentMaxDist, resetBtnDisabled, taskVars, probe>>

\* The input handler of the speed slider.
SetSpeed(val) ==
    /\ HostTurn
    /\ speedMultiplier' = sliderToSpeed(val)
    /\ speedMultiplier' # speedMultiplier
    /\ UNCHANGED <<gridVars, startHex, isRunning, gameMode, currentMaxDist,
                   uiVars, histVars, taskVars, probe>>

-----------------------------------------------------------------------------
(* The program *)

\* The page after the script has run, but for probe.
Boot ==
    /\ hexColors = EmptyMap
    /\ hexInstances = <<>>
    /\ startHex = <<>>
    /\ isRunning = FALSE
    /\ gameMode = "escape"
    /\ speedMultiplier \in {sliderToSpeed(v) : v \in SliderValues}
    /\ currentMaxDist = 0
    /\ startBtnDisabled = TRUE
    /\ resetBtnDisabled = FALSE
    /\ modeSelectDisabled = FALSE
    /\ runHistory = <<>>
    /\ currentRunId = NoRun
    /\ hvhRunHistory = <<>>
    /\ hvhCurrentRunId = NoRun
    /\ statusDiv = [className |-> "", text |-> "", distance |-> 0]
    /\ pc = "idle"
    /\ suspended = FALSE
    /\ esc = EscIdle
    /\ hvh = HvhIdle
    /\ result = <<>>

Init == Boot /\ probe = <<>>

Next ==
    \/ \E hex \in ClickCells : HandleClick(hex)
    \/ StartCheck
    \/ EscDequeue
    \/ EscNeighbor
    \/ EscPockets
    \/ HvhRound
    \/ Resume
    \/ Reset
    \/ \E mode \in GameModes : SetMode(mode)
    \/ \E val \in SliderValues : SetSpeed(val)

Spec == Init /\ [][Next]_vars

\* A step of the asynchronous task: a synchronous stretch of
\* checkEncirclement, startEscapeCheck or hexVsHexCheck, or a timer firing.
TaskStep == EscDequeue \/ EscNeighbor \/ EscPockets \/ HvhRound \/ Resume

\* The timers fire and a synchronous stretch runs to its end: a step of the
\* task that is enabled is eventually taken.
FairSpec == Spec /\ WF_vars(TaskStep)

-----------------------------------------------------------------------------
(* The codec on its own: numKey and decodeKey applied to pairs of cells *)

\* The coordinates the codec is applied to: -KEY_OFFSET..KEY_OFFSET.
CodecRange == (0 - KEY_OFFSET)..KEY_OFFSET

CodecInit == Boot /\ probe = [op |-> "none"]

\* numKey on two cells a and b.
CodecEncode ==
    /\ probe.op = "none"
    /\ \E a, b \in CodecRange \X CodecRange :
          probe' = [op |-> "numKey", a |-> a, b |-> b,
                    keyA |-> numKey(a[1], a[2]), keyB |-> numKey(b[1], b[2])]
    /\ UNCHANGED <<gridVars, hostVars, uiVars, histVars, taskVars>>

\* decodeKey on the two keys.
CodecDecode ==
    /\ probe.op = "numKey"
    /\ probe' = [op |-> "decodeKey", a |-> probe.a, b |-> probe.b,
                 keyA |-> probe.keyA, keyB |-> probe.keyB,
                 cellA |-> decodeKey(probe.keyA), cellB |-> decodeKey(probe.keyB)]
    /\ UNCHANGED <<gridVars, hostVars, uiVars, histVars, taskVars>>

CodecNext ==
    \/ CodecEncode
    \/ CodecDecode

SpecCodec == CodecInit /\ [][CodecNext]_vars

-----------------------------------------------------------------------------
(* The store on its own: getHexColor and setHexColor called in any order *)

\* The cells the calls are made on, and how many calls are made.
StoreCells == {<<0, 0>>, <<1, 0>>, <<0, 1>>}
MaxCalls == 4

StoreInit == Boot /\ probe = <<>>

\* One call, as kept in probe: the size of hexColors before and after it,
\* and the colour it returned (for setHexColor, the colour it was given).
StoreCall(op, cell, colors, color, colorsAfter) ==
    [op |-> op, cell |-> cell,
     wasSet |-> numKey(cell[1], cell[2]) \in DOMAIN colors,
     sizeBefore |-> Cardinality(DOMAIN colors),
     color |-> color,
     sizeAfter |-> Cardinality(DOMAIN colorsAfter)]

StoreGet(cell) ==
    /\ Len(probe) < MaxCalls
    /\ \E rnd \in BOOLEAN :
       \E res \in {getHexColor(hexColors, hexInstances, cell[1], cell[2], rnd)} :
          /\ hexColors' = res.hexColors
          /\ hexInstances' = res.hexInstances
          /\ probe' = Append(probe, StoreCall("getHexColor", cell, hexColors,
                                              res.color, res.hexColors))
    /\ UNCHANGED <<hostVars, uiVars, histVars, taskVars>>

StoreSet(cell) ==
    /\ Len(probe) < MaxCalls
    /\ \E isWhite \in BOOLEAN :
       \E res \in {setHexColor(hexColors, hexInstances, cell[1], cell[2], isWhite)} :
          /\ hexColors' = res.hexColors
          /\ hexInstances' = res.hexInstances
          /\ probe' = Append(probe, StoreCall("setHexColor", cell, hexColors,
                                              isWhite, res.hexColors))
    /\ UNCHANGED <<hostVars, uiVars, histVars, taskVars>>

StoreNext ==
    \/ \E cell \in StoreCells : StoreGet(cell)
    \/ \E cell \in StoreCells : StoreSet(cell)

SpecStore == StoreInit /\ [][StoreNext]_vars

-----------------------------------------------------------------------------
(* getFrontiers on its own: a grid is painted cell by cell and classified *)

\* The cells that are painted (the origin and its ring), and how many of them.
PaintCells == {c \in (0 - 1..1) \X (0 - 1..1) : hexDist(c[1], c[2]) <= 1}
MaxPainted == 4

FrontierInit == Boot /\ probe = <<>>

\* An unset cell gets a colour, as getHexColor and the battle give it.
Paint(cell) ==
    /\ Len(hexInstances) < MaxPainted
    /\ numKey(cell[1], cell[2]) \notin DOMAIN hexColors
    /\ \E rnd \in BOOLEAN :
       \E res \in {getHexColor(hexColors, hexInstances, cell[1], cell[2], rnd)} :
          /\ hexColors' = res.hexColors
          /\ hexInstances' = res.hexInstances
    /\ probe' = <<>>
    /\ UNCHANGED <<hostVars, uiVars, histVars, taskVars>>

\* getFrontiers() on the grid as it stands.
Classify ==
    /\ probe = <<>>
    /\ probe' = getFrontiers(hexColors, MapKeys(hexInstances))
    /\ UNCHANGED <<gridVars, hostVars, uiVars, histVars, taskVars>>

FrontierNext ==
    \/ \E cell \in PaintCells : Paint(cell)
    \/ Classify

SpecFrontier == FrontierInit /\ [][FrontierNext]_vars

-----------------------------------------------------------------------------
(* selectNextFrontierHex on its own: a Set is filled and a cell selected *)

\* The cells a Set is filled from, and how many it holds.
SelectRadius == 2
SelectCells ==
    {c \in (0 - SelectRadius..SelectRadius) \X (0 - SelectRadius..SelectRadius) :
        hexDist(c[1], c[2]) <= SelectRadius}
MaxFrontier == 3

SelectInit == Boot /\ probe = [frontier |-> <<>>, selected |-> FALSE, key |-> NoKey]

\* Set.prototype.add of a cell that is not in the Set.
SelectAdd(cell) ==
    /\ ~probe.selected
    /\ Len(probe.frontier) < MaxFrontier
    /\ numKey(cell[1], cell[2]) \notin Members(probe.frontier)
    /\ probe' = [probe EXCEPT !.frontier = Append(@, numKey(cell[1], cell[2]))]
    /\ UNCHANGED <<gridVars, hostVars, uiVars, histVars, taskVars>>

\* selectNextFrontierHex(frontier)
Select ==
    /\ ~probe.selected
    /\ probe' = [probe EXCEPT !.selected = TRUE,
                              !.key = selectNextFrontierHex(probe.frontier)]
    /\ UNCHANGED <<gridVars, hostVars, uiVars, histVars, taskVars>>

SelectNext ==
    \/ \E cell \in SelectCells : SelectAdd(cell)
    \/ Select

SpecSelect == SelectInit /\ [][SelectNext]_vars

-----------------------------------------------------------------------------
(* Properties of the grid store *)

\* A step that runs reset(): the reset button or a change of mode.
ResetStep == Reset \/ \E mode \in GameModes : SetMode(mode)

\* C1: in every step other than reset(), each cell that has a colour keeps
\* that colour.
ColourIsFrozen ==
    [][~ResetStep =>
          \A k \in DOMAIN hexColors :
              k \in DOMAIN hexColors' /\ hexColors'[k] = hexColors[k]]_vars

\* A search is colouring cells on a grid that already holds coloured cells.
ColouringGoesOn == isRunning /\ Cardinality(DOMAIN hexColors) >= 4

-----------------------------------------------------------------------------
(* Properties of the escape search *)

EscRunning == pc \in {"esc_while", "esc_for"}
EscReturned == pc = "esc_pockets"

\* The distances of the cells dequeued so far.
DequeuedAt == 1..esc.queueHead
MaxOf(S) == CHOOSE m \in S : \A x \in S : x <= m

\* C4: the search returns escaped exactly when a dequeued cell has distance
\* >= D, at that very dequeue, with distance exactly D; when all draws were
\* friendly it escapes with distance D.
EscapeAtThreshold ==
    /\ EscRunning => \A j \in DequeuedAt : esc.queueDist[j] < ESCAPE_DISTANCE
    /\ EscReturned =>
         /\ result.escaped <=> \E j \in DequeuedAt : esc.queueDist[j] >= ESCAPE_DISTANCE
         /\ result.escaped =>
              /\ result.distance = ESCAPE_DISTANCE
              /\ esc.queueDist[esc.queueHead] = result.distance
              /\ \A j \in DequeuedAt : j < esc.queueHead => esc.queueDist[j] < ESCAPE_DISTANCE
         /\ (\A k \in DOMAIN hexColors : hexColors[k]) =>
              result.escaped /\ result.distance = ESCAPE_DISTANCE

\* The search escaped and left cells in the queue.
EscapedUndrained ==
    /\ EscReturned /\ result.escaped
    /\ esc.queueHead < Len(esc.queueQ)
    /\ \E k \in DOMAIN hexColors : ~hexColors[k]

\* The six neighbours of the origin are hostile.
OriginWalledIn ==
    /\ startHex # <<>>
    /\ \A i \in 0..5 :
          HasColor(hexColors,
                   numKey(NeighborQ(startHex[1], i), NeighborR(startHex[2], i)), FALSE)

\* C5: the search returns encircled exactly when the queue ran empty with no
\* dequeued distance >= D; the distance is then the greatest dequeued
\* distance, below D; an origin with six hostile neighbours gives distance 0.
EncircledAtMaxDistance ==
    EscReturned =>
        /\ ~result.escaped <=>
              /\ esc.queueHead = Len(esc.queueQ)
              /\ \A j \in DequeuedAt : esc.queueDist[j] < ESCAPE_DISTANCE
        /\ ~result.escaped =>
              /\ result.distance = MaxOf({esc.queueDist[j] : j \in DequeuedAt})
              /\ result.distance < ESCAPE_DISTANCE
        /\ OriginWalledIn => ~result.escaped /\ result.distance = 0

\* The search was encircled after it had left the origin.
EncircledAwayFromOrigin ==
    EscReturned /\ ~result.escaped /\ result.distance >= 1

BallSize(d) == 1 + 3 * d * (d + 1)

\* What the search has left to do: cells still to dequeue, and neighbours
\* still to look at.
EscRank ==
    7 * (BallSize(ESCAPE_DISTANCE) - esc.queueHead)
      + (IF pc = "esc_for" THEN 6 - esc.i ELSE 0)

\* C7: an escape search that is resumed after each yield returns: each step
\* of the search uses up some of a bounded amount of work, and a running
\* search leads to a returned one.
EscapeTerminates ==
    /\ [][(EscRunning /\ ~suspended) =>
             (EscReturned' \/ (EscRank' < EscRank /\ EscRank' >= 0))]_vars
    /\ (EscRunning ~> EscReturned)

\* A search has returned after it had yielded.
EscReturnedAfterYield == EscReturned /\ esc.stepCount >= 6

-----------------------------------------------------------------------------
(* Properties of the battle *)

\* The cells at hex distance <= d from (0, 0).
Disc(d) == {c \in (0 - d..d) \X (0 - d..d) : hexDist(c[1], c[2]) <= d}

\* What the battle has left to colour: the unset cells nearer than D.
HvhRank ==
    Cardinality({c \in Disc(HVH_ESCAPE_DISTANCE - 1) :
                    numKey(c[1], c[2]) \notin DOMAIN hexColors})

HvhOutcome == pc = "idle" /\ statusDiv.text \in {"WHITE WINS", "BLACK WINS", "UNRESOLVED"}

\* C8: a battle that is resumed after each yield returns white, black or
\* unresolved: each round that does not return colours one more of the
\* finitely many cells nearer than D, and a running battle leads to an
\* outcome.
BattleTerminates ==
    /\ [][(pc = "hvh_loop" /\ ~suspended) =>
             (HvhOutcome' \/ (pc' = "hvh_loop" /\ HvhRank' < HvhRank))]_vars
    /\ (pc = "hvh_loop" ~> HvhOutcome)

\* A battle has returned after several rounds.
BattleReturnedAfterRounds == HvhOutcome /\ Len(hexInstances) >= 5

-----------------------------------------------------------------------------
(* Properties of getHexColor *)

\* Calls i and j of the log are getHexColor on one cell that was unset before
\* call i, with nothing but getHexColor calls in between.
TwoGets(i, j) ==
    /\ i < j
    /\ \A k \in i..j : probe[k].op = "getHexColor"
    /\ probe[j].cell = probe[i].cell
    /\ ~probe[i].wasSet

\* C2: of two getHexColor calls on a cell that was unset before the first,
\* both return the same colour, the first adds exactly one entry to hexColors
\* and the second adds none.
GetHexColorStable ==
    \A i, j \in DOMAIN probe :
        TwoGets(i, j) =>
            /\ probe[j].color = probe[i].color
            /\ probe[i].sizeAfter = probe[i].sizeBefore + 1
            /\ probe[j].sizeAfter = probe[j].sizeBefore

\* getHexColor has been called twice in a row on a cell that was unset.
GetHexColorCalledTwice == \E i, j \in DOMAIN probe : j = i + 1 /\ TwoGets(i, j)

-----------------------------------------------------------------------------
(* Properties of the codec *)

\* Both coordinates in -KEY_OFFSET..KEY_OFFSET.
InSymmetricRange(c) == c[1] \in CodecRange /\ c[2] \in CodecRange

\* q in -KEY_OFFSET..KEY_OFFSET and r in -KEY_OFFSET..KEY_OFFSET - 1.
InKeyRange(c) == c[1] \in CodecRange /\ c[2] \in (0 - KEY_OFFSET)..(KEY_OFFSET - 1)

\* decodeKey gave the cell back.
RoundTrip(c, decoded) == decoded.q = c[1] /\ decoded.r = c[2]

-----------------------------------------------------------------------------
(* Properties of getFrontiers *)

\* Two cells next to each other, by their keys.
Adjacent(k1, k2) ==
    hexDist(decodeKey(k1).q - decodeKey(k2).q, decodeKey(k1).r - decodeKey(k2).r) = 1

\* The cell has a neighbour of the colour in hexColors.
Touches(key, color) ==
    \E k \in DOMAIN hexColors : hexColors[k] = color /\ Adjacent(key, k)

\* The unset cells next to a coloured cell.
FrontierCells ==
    {numKey(c[1], c[2]) : c \in {d \in (0 - 2..2) \X (0 - 2..2) :
         /\ numKey(d[1], d[2]) \notin DOMAIN hexColors
         /\ \E color \in BOOLEAN : Touches(numKey(d[1], d[2]), color)}}

\* A Set holds a cell once.
NoRepeats(seq) == Cardinality(Members(seq)) = Len(seq)

\* C9: getFrontiers splits the unset cells next to a coloured cell into
\* boundary (next to both colours), whiteFrontier (next to white only) and
\* blackFrontier (next to black only): each such cell is in exactly one of
\* the three and the three hold no other cell.
FrontiersPartition ==
    probe # <<>> =>
        /\ Members(probe.boundary) =
              {k \in FrontierCells : Touches(k, TRUE) /\ Touches(k, FALSE)}
        /\ Members(probe.whiteFrontier) =
              {k \in FrontierCells : Touches(k, TRUE) /\ ~Touches(k, FALSE)}
        /\ Members(probe.blackFrontier) =
              {k \in FrontierCells : ~Touches(k, TRUE) /\ Touches(k, FALSE)}
        /\ Members(probe.boundary) \cap Members(probe.whiteFrontier) = {}
        /\ Members(probe.boundary) \cap Members(probe.blackFrontier) = {}
        /\ Members(probe.whiteFrontier) \cap Members(probe.blackFrontier) = {}
        /\ NoRepeats(probe.boundary)
        /\ NoRepeats(probe.whiteFrontier)
        /\ NoRepeats(probe.blackFrontier)

\* getFrontiers has returned three sets none of which is empty.
FrontiersAllThree ==
    /\ probe # <<>>
    /\ Len(probe.boundary) > 0
    /\ Len(probe.whiteFrontier) > 0
    /\ Len(probe.blackFrontier) > 0

-----------------------------------------------------------------------------
(* Properties of selectNextFrontierHex *)

\* The place of a cell on its ring, counted clockwise from due east in the
\* plane x = q + r/2, y = r * sqrt(3)/2 with y upwards: the ring of distance d
\* runs from (d, 0) over (d, -d), (0, -d), (-d, 0), (-d, d) and (0, d) back
\* to (d, 0), and the angle grows along it.  (On the canvas r grows
\* downwards, so the same walk is seen mirrored.)
RingIndex(q, r) ==
    LET d == hexDist(q, r) IN
    IF q = d /\ r <= 0 THEN 0 - r
    ELSE IF r = 0 - d \/ q + r = 0 - d THEN 2 * d - q
    ELSE IF q = 0 - d THEN 3 * d + r
    ELSE 5 * d + q

\* Cell k1 is further out than k2, or as far out and further clockwise.
Outranks(k1, k2) ==
    LET c1 == decodeKey(k1)
        c2 == decodeKey(k2)
    IN \/ hexDist(c1.q, c1.r) > hexDist(c2.q, c2.r)
       \/ /\ hexDist(c1.q, c1.r) = hexDist(c2.q, c2.r)
          /\ RingIndex(c1.q, c1.r) > RingIndex(c2.q, c2.r)

\* The orders in which a Set can be enumerated.
Orders(seq) ==
    {p \in [DOMAIN seq -> Members(seq)] : \A k \in Members(seq) : \E n \in DOMAIN seq : p[n] = k}

\* C10: of a Set that is not empty selectNextFrontierHex returns the cell
\* with the greatest hex distance from (0,0) and, among the cells at that
\* distance, the one with the strictly greatest clockwise angle; in whatever
\* order the Set is enumerated, the cell returned is the same.
SelectsOutermostClockwise ==
    (probe.selected /\ Len(probe.frontier) > 0) =>
        /\ probe.key \in Members(probe.frontier)
        /\ \A k \in Members(probe.frontier) \ {probe.key} : Outranks(probe.key, k)
        /\ \A p \in Orders(probe.frontier) : selectNextFrontierHex(p) = probe.key

\* Of three cells at one distance the one enumerated first has been selected.
SelectedFirstOfTie ==
    /\ probe.selected
    /\ Len(probe.frontier) = 3
    /\ \A n \in 1..3 : hexDist(decodeKey(probe.frontier[n]).q,
                               decodeKey(probe.frontier[n]).r) = SelectRadius
    /\ probe.key = probe.frontier[1]

-----------------------------------------------------------------------------
(* hexVsHexCheck on grids that are coloured before the battle starts *)

\* The cells coloured one by one: the origin and its six neighbours.
RegionCells ==
    << <<0, 0>>, <<1, 0>>, <<1, 0 - 1>>, <<0, 0 - 1>>, <<0 - 1, 0>>, <<0 - 1, 1>>, <<0, 1>> >>

\* The cells coloured together: the ring at distance 2 of the origin.
RingCells ==
    << <<2, 0>>, <<2, 0 - 1>>, <<2, 0 - 2>>, <<1, 0 - 2>>, <<0, 0 - 2>>, <<0 - 1, 0 - 1>>,
       <<0 - 2, 0>>, <<0 - 2, 1>>, <<0 - 2, 2>>, <<0 - 1, 2>>, <<0, 2>>, <<1, 1>> >>

\* setHexColor on each cell of cells in turn: the store after the last call.
setHexColors(colors, instances, cells, isWhite) ==
    LET paint[n \in 0..Len(cells)] ==
            IF n = 0 THEN [hexColors |-> colors, hexInstances |-> instances]
            ELSE setHexColor(paint[n - 1].hexColors, paint[n - 1].hexInstances,
                             cells[n][1], cells[n][2], isWhite)
    IN paint[Len(cells)]

\* No search has run yet and none is running.
BeforeSearch == pc = "idle" /\ ~isRunning /\ Len(runHistory) + Len(hvhRunHistory) = 0

\* Cell i of RegionCells gets a colour; the cells are taken in their order.
RegionPaint(i, isWhite) ==
    /\ BeforeSearch
    /\ probe.op = "none"
    /\ probe.painted < i
    /\ numKey(RegionCells[i][1], RegionCells[i][2]) \notin DOMAIN hexColors
    /\ \E res \in {setHexColor(hexColors, hexInstances,
                               RegionCells[i][1], RegionCells[i][2], isWhite)} :
          /\ hexColors' = res.hexColors
          /\ hexInstances' = res.hexInstances
    /\ probe' = [probe EXCEPT !.painted = i]
    /\ UNCHANGED <<hostVars, uiVars, histVars, taskVars>>

\* The ring gets one colour; no cell is coloured after it.
RingPaint(isWhite) ==
    /\ BeforeSearch
    /\ probe.op = "none"
    /\ probe.painted <= Len(RegionCells)
    /\ \E res \in {setHexColors(hexColors, hexInstances, RingCells, isWhite)} :
          /\ hexColors' = res.hexColors
          /\ hexInstances' = res.hexInstances
    /\ probe' = [probe EXCEPT !.painted = Len(RegionCells) + 1]
    /\ UNCHANGED <<hostVars, uiVars, histVars, taskVars>>

BattleInit == Boot /\ probe = [op |-> "none", painted |-> 0]

\* The mode selector is set to Hex vs Hex.
BattleMode == gameMode = "escape" /\ SetMode("hexvshex")

\* A click on the origin places the white and the black hex.
BattleClick == gameMode = "hexvshex" /\ HandleClick(<<0, 0>>)

\* More cells get a colour around the two hexes.
BattlePaint == startHex # <<>> /\ \E i \in DOMAIN RegionCells, isWhite \in BOOLEAN : RegionPaint(i, isWhite)

BattleRing == startHex # <<>> /\ \E isWhite \in BOOLEAN : RingPaint(isWhite)

\* The start button.
BattleStart == gameMode = "hexvshex" /\ StartCheck

BattleNext ==
    \/ BattleMode
    \/ BattleClick
    \/ BattlePaint
    \/ BattleRing
    \/ BattleStart
    \/ HvhRound
    \/ Resume

SpecBattle == BattleInit /\ [][BattleNext]_vars

-----------------------------------------------------------------------------
(* Properties of the battle's verdicts *)

\* isHexTrapped for the white origin and for the black origin on a grid.
WhiteTrappedIn(colors) ==
    isHexTrapped(colors, startHex[1], startHex[2], HVH_ESCAPE_DISTANCE)

BlackTrappedIn(colors) ==
    isHexTrapped(colors, startHex[1] + 1, startHex[2], HVH_ESCAPE_DISTANCE)

\* A step of the battle that is a round colouring a cell.
HvhColours == pc = "hvh_loop" /\ ~suspended /\ Len(hexInstances') = Len(hexInstances) + 1

\* A step of the battle that leaves the loop without colouring a cell.
HvhLeaves == pc = "hvh_loop" /\ ~suspended /\ hexInstances' = hexInstances

\* The step returns the winner to startHvhCheck.
HvhReturns(winner) == pc' = "idle" /\ result' # <<>> /\ result'.winner = winner

\* The largest distance from the origin of the coloured cells in instances.
ColouredDistance(instances) ==
    MaxOf({0} \cup {hexDist(instances[n].q, instances[n].r) : n \in DOMAIN instances})

RoundFollowsTrapped(whiteTrapped, blackTrapped) ==
    /\ (whiteTrapped /\ ~blackTrapped) => HvhReturns("black")
    /\ (blackTrapped /\ ~whiteTrapped) => HvhReturns("white")
    /\ (whiteTrapped /\ blackTrapped) => HvhReturns("unresolved")
    /\ (~whiteTrapped /\ ~blackTrapped) => pc' = "hvh_loop"

\* C11: a round that colours a cell below the distance limit ends the battle
\* with black the winner when only the white origin is trapped, with white the
\* winner when only the black origin is trapped, unresolved when both are
\* trapped, and goes on to the next round when neither is.
RoundVerdict ==
    [][(HvhColours /\ currentMaxDist' < HVH_ESCAPE_DISTANCE) =>
          RoundFollowsTrapped(WhiteTrappedIn(hexColors'), BlackTrappedIn(hexColors'))]_vars

\* A battle has ended unresolved below the limit: both origins were trapped.
BothTrappedBelowLimit ==
    /\ HvhOutcome
    /\ result.winner = "unresolved"
    /\ 0 < result.distance /\ result.distance < HVH_ESCAPE_DISTANCE
    /\ WhiteTrappedIn(hexColors) /\ BlackTrappedIn(hexColors)

\* No unset cell has a white and a black neighbour.
NoBoundary ==
    \A d \in Disc(HVH_ESCAPE_DISTANCE + 1) :
        \/ numKey(d[1], d[2]) \in DOMAIN hexColors
        \/ ~(Touches(numKey(d[1], d[2]), TRUE) /\ Touches(numKey(d[1], d[2]), FALSE))

ExhaustedFollowsTrapped(whiteTrapped, blackTrapped) ==
    /\ (whiteTrapped /\ ~blackTrapped) => HvhReturns("black")
    /\ (blackTrapped /\ ~whiteTrapped) => HvhReturns("white")
    /\ (whiteTrapped = blackTrapped) => HvhReturns("unresolved")

\* C12: the battle leaves its loop without colouring a cell only when no
\* boundary cell is left, and then the winner is the colour of the origin that
\* is not trapped when exactly one origin is trapped, and the battle is
\* unresolved when both or neither are.
ExhaustedVerdict ==
    [][HvhLeaves =>
          /\ NoBoundary
          /\ hexColors' = hexColors
          /\ ExhaustedFollowsTrapped(WhiteTrappedIn(hexColors), BlackTrappedIn(hexColors))]_vars

\* A battle has ended with a winner at an empty boundary without a round.
ExhaustedWithWinner ==
    /\ HvhOutcome
    /\ NoBoundary
    /\ result.distance = 0
    /\ result.winner \in {"white", "black"}

\* C13: a round whose cell brings the largest distance of the battle's cells
\* to D ends the battle unresolved, whether an origin is trapped or not, and
\* no battle ends with a winner at a distance of D or more.
LimitUnresolved ==
    /\ [](HvhOutcome /\ result.winner \in {"white", "black"}
             => result.distance < HVH_ESCAPE_DISTANCE)
    /\ [][(HvhColours /\ ColouredDistance(hexInstances') >= HVH_ESCAPE_DISTANCE)
             => HvhReturns("unresolved")]_vars

\* A battle has ended unresolved with a cell at the limit.
UnresolvedAtLimit ==
    /\ HvhOutcome
    /\ result.winner = "unresolved"
    /\ result.distance >= HVH_ESCAPE_DISTANCE
    /\ ColouredDistance(hexInstances) >= HVH_ESCAPE_DISTANCE

-----------------------------------------------------------------------------
(* isHexTrapped on its own: the detector applied to coloured grids *)

\* The return isHexTrapped takes, with queue and head of step 3 at that
\* return: "unset" for an origin without a colour, "sealed" for an empty
\* frontier, else the return of step 3.
isHexTrappedExit(colors, startQ, startR, maxDist) ==
    LET startKey == numKey(startQ, startR) IN
    IF startKey \notin DOMAIN colors
    THEN [exit |-> "unset", queue |-> <<>>, head |-> 0]
    ELSE \* the set below has one element
         CHOOSE run \in
           UNION {UNION {IF Len(frontier) = 0
                         THEN {[exit |-> "sealed", queue |-> <<>>, head |-> 0]}
                         ELSE {UntestedSearchEnd(colors, maxDist, frontier)} :
                           frontier \in {UntestedFrontier(colors, region)}} :
                    region \in {SameColorFill(colors, startKey)}} : TRUE

\* A faulty detector that reads the origin with getHexColor, which colours a
\* cell that has no colour yet.
isHexTrappedStoreColoured(colors, instances, startQ, startR, maxDist) ==
    [hexColors |-> getHexColor(colors, instances, startQ, startR, TRUE).hexColors,
     hexInstances |-> getHexColor(colors, instances, startQ, startR, TRUE).hexInstances]

\* The store when isHexTrapped returns: the function reads hexColors with get
\* and has, and keeps its sets and queues in locals.
isHexTrappedStore(colors, instances, startQ, startR, maxDist) ==
    [hexColors |-> colors, hexInstances |-> instances]

\* The cells the detector is started from, and the values of maxDist.
TrappedStarts == {<<0, 0>>, <<1, 0>>}
TrappedDistances == 1..HVH_ESCAPE_DISTANCE

TrappedInit == Boot /\ probe = [op |-> "none", painted |-> 0]

\* A cell of RegionCells gets a colour.
TrappedPaint == \E i \in DOMAIN RegionCells, isWhite \in BOOLEAN : RegionPaint(i, isWhite)

\* The ring gets a colour.
TrappedRing == \E isWhite \in BOOLEAN : RingPaint(isWhite)

\* isHexTrapped(start, maxDist) on the grid as it stands.
TrappedCall ==
    /\ BeforeSearch
    /\ probe.op = "none"
    /\ \E start \in TrappedStarts, maxDist \in TrappedDistances :
       \E run \in {isHexTrappedExit(hexColors, start[1], start[2], maxDist)} :
       \E store \in {isHexTrappedStore(hexColors, hexInstances, start[1], start[2], maxDist)} :
          /\ probe' = [op |-> "isHexTrapped", painted |-> probe.painted,
                       start |-> start, maxDist |-> maxDist,
                       trapped |-> isHexTrapped(hexColors, start[1], start[2], maxDist),
                       exit |-> run.exit, queue |-> run.queue, head |-> run.head]
          /\ hexColors' = store.hexColors
          /\ hexInstances' = store.hexInstances
    /\ UNCHANGED <<hostVars, uiVars, histVars, taskVars>>

TrappedNext ==
    \/ TrappedPaint
    \/ TrappedRing
    \/ TrappedCall

SpecTrapped == TrappedInit /\ [][TrappedNext]_vars

-----------------------------------------------------------------------------
(* Properties of isHexTrapped *)

\* The six cells next to a cell on the hex grid: those at distance 1 of it.
Around(c) ==
    {<<c[1] + 1, c[2]>>, <<c[1] - 1, c[2]>>, <<c[1], c[2] + 1>>, <<c[1], c[2] - 1>>,
     <<c[1] + 1, c[2] - 1>>, <<c[1] - 1, c[2] + 1>>}

\* The cells the properties range over: the coloured cells lie within
\* distance 2 of the origin, their unset neighbours within distance 3.
Field == Disc(HVH_ESCAPE_DISTANCE + 1)

\* S and the cells of inside that are connected to a cell of S through cells
\* of inside; new are the cells of S whose neighbours are still to be added.
RECURSIVE Grown(_, _, _)
Grown(S, new, inside) ==
    LET more == ((UNION {Around(c) : c \in new}) \cap inside) \ S
    IN IF more = {} THEN S ELSE Grown(S \cup more, more, inside)

\* The cells of inside that are connected to a cell of seed through cells of
\* inside.
Connected(seed, inside) == Grown(seed \cap inside, seed \cap inside, inside)

IsSet(c) == numKey(c[1], c[2]) \in DOMAIN hexColors
ColourOf(c) == hexColors[numKey(c[1], c[2])]

\* The call isHexTrapped(start, maxDist) has been made, on a coloured origin.
TrappedCalled == probe.op = "isHexTrapped" /\ IsSet(probe.start)

\* The same-colour region of the origin of the call.
OriginRegion ==
    Connected({probe.start}, {c \in Field : IsSet(c) /\ ColourOf(c) = ColourOf(probe.start)})

\* The unset cells next to the region.
RegionBorder ==
    LET region == OriginRegion
    IN {d \in UNION {Around(c) : c \in region} : ~IsSet(d)}

\* The unset cells connected to the region through unset cells, followed up
\* to distance maxDist: a path of unset cells from the region to a cell at
\* maxDist or beyond starts at such a cell or passes one at exactly maxDist.
UnsetReach ==
    LET border == RegionBorder
    IN Connected(border,
                 border \cup {d \in Field : ~IsSet(d) /\ hexDist(d[1], d[2]) <= probe.maxDist})

\* Every cell of cells is nearer than maxDist to the origin of the grid.
AllBelow(cells) == \A d \in cells : hexDist(d[1], d[2]) < probe.maxDist

\* C14: isHexTrapped returns true whenever the same-colour region of its
\* coloured origin has no unset neighbour.
SealedIsTrapped ==
    (TrappedCalled /\ RegionBorder = {}) => probe.trapped

\* A region of several cells without an unset neighbour was found trapped.
SealedRegionTrapped ==
    /\ TrappedCalled
    /\ RegionBorder = {}
    /\ Cardinality(OriginRegion) >= 2
    /\ probe.trapped

\* C15: when the unset cells reachable from the region through unset cells
\* are fewer than MAX_UNTESTED_SEARCH and all nearer than maxDist to the
\* origin of the grid, isHexTrapped returns true.
EnclosedIsTrapped ==
    TrappedCalled =>
        \A reach \in {UnsetReach} :
            (Cardinality(reach) < MAX_UNTESTED_SEARCH /\ AllBelow(reach)) => probe.trapped

\* A region with an enclosed pocket of several unset cells was found trapped.
EnclosedPocketTrapped ==
    /\ TrappedCalled
    /\ probe.maxDist = HVH_ESCAPE_DISTANCE
    /\ Cardinality(UnsetReach) >= 2
    /\ probe.trapped

\* C16: when step 3 dequeues MAX_UNTESTED_SEARCH cells, all nearer than
\* maxDist, isHexTrapped returns false; it does so whenever the unset cells
\* reachable from the region are that many and all nearer than maxDist.
BudgetIsNotTrapped ==
    /\ (probe.op = "isHexTrapped" /\ probe.exit = "budget") =>
          /\ ~probe.trapped
          /\ probe.head = MAX_UNTESTED_SEARCH
          /\ \A n \in 1..probe.head :
                hexDist(decodeKey(probe.queue[n]).q, decodeKey(probe.queue[n]).r)
                   < probe.maxDist
    /\ TrappedCalled =>
          \A reach \in {UnsetReach} :
              (Cardinality(reach) >= MAX_UNTESTED_SEARCH /\ AllBelow(reach)) =>
                  ~probe.trapped /\ probe.exit = "budget"

\* The budget ran out inside an enclosed pocket: the region is held free
\* although no unset cell at maxDist can be reached.
BudgetInsidePocket ==
    /\ TrappedCalled
    /\ probe.exit = "budget"
    /\ ~probe.trapped
    /\ AllBelow(UnsetReach)

\* C17: when isHexTrapped returns true, no unset cell that is connected to the
\* region through unset cells is at distance maxDist or more.
TrappedIsEnclosed ==
    (probe.op = "isHexTrapped" /\ probe.trapped) =>
        /\ IsSet(probe.start)
        /\ AllBelow(UnsetReach)

\* A region was found trapped whose unset cells are all one step below
\* maxDist.
TrappedJustBelow ==
    /\ TrappedCalled
    /\ probe.trapped
    /\ \E reach \in {UnsetReach} :
          reach # {} /\ \A d \in reach : hexDist(d[1], d[2]) = probe.maxDist - 1

-----------------------------------------------------------------------------
(* Escape mode: findEncircledPockets *)

MAX_POCKET_SIZE == 3

\* The first loop of findEncircledPockets: candidates in insertion order; keys
\* are the keys of hexColors in insertion order.
PocketCandidates(colors, keys) ==
    LET visit[st \in QueueStates] ==
            IF st.i = 6 THEN st.queue
            ELSE LET nk == NeighborKey(keys[st.head + 1], st.i)
                 IN IF nk \notin DOMAIN colors /\ nk \notin Members(st.queue)
                    THEN visit[[st EXCEPT !.queue = Append(@, nk), !.i = @ + 1]]
                    ELSE visit[[st EXCEPT !.i = @ + 1]]
        scan[st \in QueueStates] ==
            IF st.head >= Len(keys) THEN st.queue
            ELSE IF colors[keys[st.head + 1]] THEN scan[[st EXCEPT !.head = @ + 1]]
            ELSE scan[[queue |-> visit[st], head |-> st.head + 1, i |-> 0]]
    IN scan[[queue |-> <<>>, head |-> 0, i |-> 0]]

\* The state of the flood fill of one candidate: queue holds the cells of
\* queueQ and queueR, head is queueHead, i the neighbour that is up.
PocketStates ==
    [queue : Seq(Int \X Int), head : Nat, i : 0..6, visited : SUBSET Int,
     touchesWhite : BOOLEAN, pocketSize : Nat]

\* The while loop over queueQ / queueR for the candidate startNk: the locals
\* when the loop is left; the cells dequeued are queue[1..head].
PocketFill(colors, startNk) ==
    LET visit[st \in PocketStates] ==
            IF st.i = 6 THEN st
            ELSE LET nq == NeighborQ(st.queue[st.head][1], st.i)
                     nr == NeighborR(st.queue[st.head][2], st.i)
                     nk == numKey(nq, nr)
                 IN IF nk \in st.visited THEN visit[[st EXCEPT !.i = @ + 1]]
                    ELSE IF nk \in DOMAIN colors
                    THEN visit[[st EXCEPT !.visited = @ \cup {nk},
                                          !.touchesWhite = @ \/ colors[nk],
                                          !.i = @ + 1]]
                    ELSE visit[[st EXCEPT !.visited = @ \cup {nk},
                                          !.queue = Append(@, <<nq, nr>>),
                                          !.i = @ + 1]]
        fill[st \in PocketStates] ==
            IF st.head < Len(st.queue)
            THEN IF st.pocketSize + 1 > MAX_POCKET_SIZE
                 THEN [st EXCEPT !.head = @ + 1, !.pocketSize = @ + 1]
                 ELSE fill[visit[[st EXCEPT !.head = @ + 1, !.pocketSize = @ + 1, !.i = 0]]]
            ELSE st
    IN fill[[queue |-> <<<<decodeKey(startNk).q, decodeKey(startNk).r>>>>, head |-> 0,
             i |-> 6, visited |-> {startNk}, touchesWhite |-> FALSE, pocketSize |-> 0]]

\* The keys the flood fill has added to checkedUntested.
PocketChecked(fill) == {numKey(fill.queue[n][1], fill.queue[n][2]) : n \in 1..fill.head}

\* A faulty test that reports a pocket although it touches a white cell.
PocketReportedTouching(touchesWhite, pocketSize) ==
    pocketSize <= MAX_POCKET_SIZE /\ pocketSize > 0

\* if (!touchesWhite && pocketSize <= MAX_POCKET_SIZE && pocketSize > 0)
PocketReported(touchesWhite, pocketSize) ==
    ~touchesWhite /\ pocketSize <= MAX_POCKET_SIZE /\ pocketSize > 0

\* A faulty test that starts a flood fill from every candidate.
PocketNeverSkipped(checkedUntested, startNk) == FALSE

\* if (checkedUntested.has(startNk)) continue;
PocketSkipped(checkedUntested, startNk) == startNk \in checkedUntested

\* The state of the loop over the candidates: n is up; pockets holds, for each
\* entry of pocketSizes, the cells its flood fill dequeued.
PocketLoopStates ==
    [n : Nat, checkedUntested : SUBSET Int, pocketSizes : Seq(Nat), pockets : Seq(SUBSET Int)]

\* findEncircledPockets(): pocketSizes as returned, and with it the cells of
\* each pocket reported.
findEncircledPockets(colors, keys) ==
    LET candidates == PocketCandidates(colors, keys)
        loop[st \in PocketLoopStates] ==
            IF st.n > Len(candidates)
            THEN [pocketSizes |-> st.pocketSizes, pockets |-> st.pockets]
            ELSE IF PocketSkipped(st.checkedUntested, candidates[st.n])
            THEN loop[[st EXCEPT !.n = @ + 1]]
            ELSE loop[CHOOSE next \in
                        {IF PocketReported(fill.touchesWhite, fill.pocketSize)
                         THEN [n |-> st.n + 1,
                               checkedUntested |-> st.checkedUntested \cup PocketChecked(fill),
                               pocketSizes |-> Append(st.pocketSizes, fill.pocketSize),
                               pockets |-> Append(st.pockets, PocketChecked(fill))]
                         ELSE [n |-> st.n + 1,
                               checkedUntested |-> st.checkedUntested \cup PocketChecked(fill),
                               pocketSizes |-> st.pocketSizes,
                               pockets |-> st.pockets] :
                            fill \in {PocketFill(colors, candidates[st.n])}} : TRUE]
    IN loop[[n |-> 1, checkedUntested |-> {}, pocketSizes |-> <<>>, pockets |-> <<>>]]

\* A faulty read that goes through getHexColor, which colours a cell that
\* has no colour yet.
PocketReadColoured(store, key) ==
    [hexColors |-> getHexColor(store.hexColors, store.hexInstances,
                               decodeKey(key).q, decodeKey(key).r, TRUE).hexColors,
     hexInstances |-> getHexColor(store.hexColors, store.hexInstances,
                                  decodeKey(key).q, decodeKey(key).r, TRUE).hexInstances]

\* hexColors.has(nk) and hexColors.get(nk): the store after the read.
PocketRead(store, key) == store

\* The store after the reads of the keys keys[n..], in their order.
RECURSIVE PocketReads(_, _, _)
PocketReads(store, keys, n) ==
    IF n > Len(keys) THEN store
    ELSE PocketReads(PocketRead(store, keys[n]), keys, n + 1)

\* The store when findEncircledPockets returns: the function reads hexColors
\* with has and get, among others on every candidate, an unset cell, and
\* keeps its sets and queues in locals.
findEncircledPocketsStore(colors, instances) ==
    PocketReads([hexColors |-> colors, hexInstances |-> instances],
                PocketCandidates(colors, MapKeys(instances)), 1)

-----------------------------------------------------------------------------
(* findEncircledPockets on its own: the function applied to coloured grids *)

PocketsInit == Boot /\ probe = [op |-> "none", painted |-> 0]

\* A cell of RegionCells gets a colour.
PocketsPaint == \E i \in DOMAIN RegionCells, isWhite \in BOOLEAN : RegionPaint(i, isWhite)

\* The ring gets a colour.
PocketsRing == \E isWhite \in BOOLEAN : RingPaint(isWhite)

\* findEncircledPockets() on the grid as it stands.
PocketsCall ==
    /\ BeforeSearch
    /\ probe.op = "none"
    /\ \E res \in {findEncircledPockets(hexColors, MapKeys(hexInstances))} :
          probe' = [op |-> "findEncircledPockets", painted |-> probe.painted,
                    pocketSizes |-> res.pocketSizes, pockets |-> res.pockets]
    /\ \E store \in {findEncircledPocketsStore(hexColors, hexInstances)} :
          /\ hexColors' = store.hexColors
          /\ hexInstances' = store.hexInstances
    /\ UNCHANGED <<hostVars, uiVars, histVars, taskVars>>

PocketsNext ==
    \/ PocketsPaint
    \/ PocketsRing
    \/ PocketsCall

SpecPockets == PocketsInit /\ [][PocketsNext]_vars

-----------------------------------------------------------------------------
(* Properties of findEncircledPockets *)

PocketsCalled == probe.op = "findEncircledPockets"

\* The cells the properties range over: the coloured cells lie within the
\* distance of RingCells, their unset neighbours one step farther.
PocketField == Disc(hexDist(RingCells[1][1], RingCells[1][2]) + 1)

\* The unset cells of the field, and those next to a cell of the colour.
UnsetCells == {d \in PocketField : ~IsSet(d)}
NextToColour(d, isWhite) ==
    \E c \in Around(d) : IsSet(c) /\ ColourOf(c) = isWhite

\* The keys of a set of cells.
KeysOf(cells) == {numKey(d[1], d[2]) : d \in cells}

\* The connected components of unset cells that hold a cell next to a black
\* cell.  A component that reaches the rim of the field is the open grid; it
\* has more than MAX_POCKET_SIZE cells in the field already.
HostileComponents ==
    LET unset == UnsetCells
    IN {Connected({d}, unset) : d \in {e \in unset : NextToColour(e, FALSE)}}

\* A component is enclosed: none of its cells is next to a white cell, and it
\* has at most MAX_POCKET_SIZE cells.
Enclosed(comp) ==
    /\ Cardinality(comp) <= MAX_POCKET_SIZE
    /\ \A d \in comp : ~NextToColour(d, TRUE)

\* C19: the pockets reported are exactly the components of unset cells next
\* to a black cell that touch no white cell and have at most MAX_POCKET_SIZE
\* cells, and the size reported for a pocket is the number of its cells.
PocketsAreEnclosedComponents ==
    PocketsCalled =>
        \A comps \in {HostileComponents} :
            /\ \A comp \in comps :
                  Enclosed(comp) <=> \E n \in DOMAIN probe.pockets : probe.pockets[n] = KeysOf(comp)
            /\ \A n \in DOMAIN probe.pockets :
                  /\ \E comp \in comps : probe.pockets[n] = KeysOf(comp)
                  /\ probe.pocketSizes[n] = Cardinality(probe.pockets[n])
            /\ Len(probe.pocketSizes) = Len(probe.pockets)

\* A pocket was reported while another enclosed space was too large and a
\* third touched a white cell.
PocketAmongOthers ==
    /\ PocketsCalled
    /\ Len(probe.pockets) >= 1
    /\ \E comps \in {HostileComponents} :
          /\ \E comp \in comps : Cardinality(comp) > MAX_POCKET_SIZE
          /\ \E comp \in comps :
                Cardinality(comp) <= MAX_POCKET_SIZE /\ \E d \in comp : NextToColour(d, TRUE)

\* C20: no pocket reported holds a cell next to a white cell, and no cell
\* lies in two pockets reported.
PocketsDisjointAndHostile ==
    PocketsCalled =>
        /\ \A n \in DOMAIN probe.pockets :
              \A d \in UnsetCells :
                  numKey(d[1], d[2]) \in probe.pockets[n] => ~NextToColour(d, TRUE)
        /\ \A n, m \in DOMAIN probe.pockets :
              n # m => probe.pockets[n] \cap probe.pockets[m] = {}

\* Two pockets of several candidates were reported.
TwoPocketsReported ==
    /\ PocketsCalled
    /\ Len(probe.pockets) >= 2
    /\ \E n \in DOMAIN probe.pockets : Cardinality(probe.pockets[n]) >= 2

-----------------------------------------------------------------------------
(* Several runs in one page, and the page going away *)

\* How many runs the history may hold here, and how many white draws a run
\* may make (the draws are inputs: Math.random() is not bounded).
MaxRunsLong == 2
MaxWhite == 2

\* The white cells a run has drawn: all white cells but the white origin.
WhiteDrawn(instances) ==
    Cardinality({i \in DOMAIN instances : instances[i].color = 1}) - 1

\* The beforeunload handler; the page is gone afterwards, and with it the
\* task and its timers.  What stays is the history saved in localStorage.
BeforeUnload ==
    /\ HostTurn
    /\ runHistory' = IF isRunning /\ gameMode = "escape"
                     THEN interruptRun(runHistory, currentRunId, currentMaxDist,
                                       Len(hexInstances))
                     ELSE runHistory
    /\ currentRunId' = IF isRunning /\ gameMode = "escape"
                       THEN ClosedRunId(runHistory, currentRunId)
                       ELSE currentRunId
    /\ hvhRunHistory' = IF isRunning /\ gameMode # "escape"
                        THEN interruptRun(hvhRunHistory, hvhCurrentRunId,
                                          currentMaxDist, Len(hexInstances))
                        ELSE hvhRunHistory
    /\ hvhCurrentRunId' = IF isRunning /\ gameMode # "escape"
                          THEN ClosedRunId(hvhRunHistory, hvhCurrentRunId)
                          ELSE hvhCurrentRunId
    /\ pc' = "unloaded"
    /\ suspended' = FALSE
    /\ UNCHANGED <<gridVars, hostVars, uiVars, esc, hvh, result, probe>>

RunsStart == Len(runHistory) + Len(hvhRunHistory) < MaxRunsLong /\ startCheck

\* A step of the search whose draw keeps the run within MaxWhite.
RunsStep == TaskStep /\ WhiteDrawn(hexInstances') <= MaxWhite

RunsNext ==
    \/ \E hex \in ClickCells : HandleClick(hex)
    \/ RunsStart
    \/ RunsStep
    \/ Reset
    \/ \E mode \in GameModes : SetMode(mode)
    \/ \E val \in SliderValues : SetSpeed(val)
    \/ BeforeUnload

SpecRuns == Init /\ [][RunsNext]_vars

-----------------------------------------------------------------------------
(* Two runs from the same origin with the same draws *)

\* How many white draws the first of the two runs may make.
MaxWhiteTwin == 4

\* The record of the run that has just ended, in the history of the mode.
LastRecord ==
    IF gameMode = "escape" THEN runHistory[Len(runHistory)]
    ELSE hvhRunHistory[Len(hvhRunHistory)]

\* Run probe.run is over: it has returned and startCheck has ended.
RunOver ==
    /\ pc = "idle" /\ ~isRunning
    /\ Len(runHistory) + Len(hvhRunHistory) = probe.run

TwinInit ==
    /\ Boot
    /\ probe = [op |-> "twin", run |-> 1, origin |-> <<>>, instances |-> <<>>,
                status |-> <<>>, record |-> <<>>, speed |-> 0]

\* The mode is chosen before the first origin and kept for both runs.
TwinMode ==
    /\ probe.run = 1 /\ startHex = <<>> /\ gameMode = "escape"
    /\ SetMode("hexvshex")

\* The second run starts from the origin of the first.
TwinClick(hex) ==
    /\ probe.run = 2 => hex = probe.origin
    /\ HandleClick(hex)

TwinStart == Len(runHistory) + Len(hvhRunHistory) < probe.run /\ startCheck

\* The k-th draw of the second run is the k-th draw of the first.
SameDraws(instances) ==
    \A i \in DOMAIN instances \cap DOMAIN probe.instances :
        instances[i].color = probe.instances[i].color

TwinStep ==
    /\ TaskStep
    /\ IF probe.run = 1 THEN WhiteDrawn(hexInstances') <= MaxWhiteTwin
       ELSE SameDraws(hexInstances')

\* The observer notes what the first run did, before the grid is reset.
TwinKeep ==
    /\ probe.run = 1 /\ RunOver
    /\ probe' = [probe EXCEPT !.run = 2, !.origin = startHex,
                               !.instances = hexInstances, !.status = statusDiv,
                               !.record = LastRecord, !.speed = speedMultiplier]
    /\ UNCHANGED <<gridVars, hostVars, uiVars, histVars, taskVars>>

TwinReset ==
    /\ probe.run = 2 /\ Len(runHistory) + Len(hvhRunHistory) = 1
    /\ Reset

TwinNext ==
    \/ TwinMode
    \/ \E hex \in ClickCells : TwinClick(hex)
    \/ TwinStart
    \/ TwinStep
    \/ TwinKeep
    \/ TwinReset
    \/ \E val \in SliderValues : SetSpeed(val)

SpecTwin == TwinInit /\ [][TwinNext]_vars

-----------------------------------------------------------------------------
(* C21: the colouring is a function of the origin and the draws *)

\* The second run has coloured, so far, what the first run coloured first.
FollowsFirstRun ==
    /\ Len(hexInstances) <= Len(probe.instances)
    /\ \A i \in DOMAIN hexInstances : hexInstances[i] = probe.instances[i]

\* The second run has ended as the first did.
EndsAsFirstRun ==
    /\ hexInstances = probe.instances
    /\ statusDiv = probe.status
    /\ LastRecord = probe.record

-----------------------------------------------------------------------------
(* C22: reset empties the grid *)

GridEmpty == hexColors = EmptyMap /\ hexInstances = <<>>

-----------------------------------------------------------------------------
(* C23: one search at a time *)

\* A search task is live: it has been started and has not ended.
TaskLive == pc \in {"esc_while", "esc_for", "esc_pockets", "hvh_loop"}

\* startRun() or startHvhRun() opens a record: a search task starts.
RunStarts ==
    Len(runHistory') + Len(hvhRunHistory') > Len(runHistory) + Len(hvhRunHistory)

\* C23: a search task starts only when no search task is live, and a live
\* task keeps isRunning set, which is what startCheck tests: under every
\* interleaving of clicks, starts, timers, resets and mode changes there is
\* at most one task that can write colours.
OneSearchAtATime ==
    /\ [](TaskLive => isRunning)
    /\ [][RunStarts => (~TaskLive /\ TaskLive')]_vars

\* The second search of the page is live and waits in sleep(): the host
\* has the turn.
SecondSearchSuspended ==
    /\ Len(runHistory) + Len(hvhRunHistory) = 2
    /\ TaskLive /\ suspended /\ startHex # <<>>
    /\ Len(hexInstances) > 2

-----------------------------------------------------------------------------
(* C24: a run's record is written once, by its run *)

\* The records of history that the step changes or drops.
Rewritten(history, after) ==
    {i \in DOMAIN history : i \notin DOMAIN after \/ after[i] # history[i]}

\* The step writes into history at most the record that id names, which is
\* the last one opened and still in progress, while the run is going on.
WritesOwnRecord(history, after, id) ==
    \A i \in Rewritten(history, after) :
        /\ i = id + 1 /\ i = Len(history)
        /\ history[i].inProgress /\ ~after[i].inProgress
        /\ isRunning

\* A record in progress is the last one of its history, the one its run
\* opened, and that run is going on in the mode of the history.
OpenIsCurrent(history, id, mode) ==
    \A i \in DOMAIN history :
        history[i].inProgress =>
            i = id + 1 /\ i = Len(history) /\ isRunning /\ gameMode = mode

-----------------------------------------------------------------------------
(* C25: the record of an interrupted run *)

\* maxDistReached of the search of the current mode.
SearchMaxDist ==
    IF gameMode = "escape" THEN esc.maxDistReached ELSE hvh.maxDistReached

\* The search has been started and has not returned.
SearchGoing == pc \in {"esc_while", "esc_for", "hvh_loop"}

\* The step runs the beforeunload handler.
UnloadStep == pc # "unloaded" /\ pc' = "unloaded"

\* The step leaves the record of the current run interrupted, with the
\* distance the search had reached.
RunInterrupted ==
    /\ LastRecord'.interrupted /\ ~LastRecord'.inProgress
    /\ LastRecord'.distance = SearchMaxDist

\* C25 as stated: reset() or an unload while isRunning is set leaves the
\* record of the run interrupted with the distance reached, and otherwise
\* neither writes a record.  It fails for an unload between the return of
\* checkEncirclement and the end of startCheck.
InterruptedWhileRunning ==
    [][(UnloadStep \/ ResetStep) =>
          IF isRunning THEN RunInterrupted
          ELSE UNCHANGED <<runHistory, hvhRunHistory>>]_vars

\* C25, amended: reset() or an unload while the search has not yet returned
\* leaves the record of the run marked interrupted, with the maximum
\* distance the search had reached at its last yield; when no search is
\* going on (no run, or the run has recorded its outcome and waits for the
\* pocket analysis with isRunning still set) neither writes a record.
InterruptedWhileSearching ==
    [][(UnloadStep \/ ResetStep) =>
          IF SearchGoing THEN RunInterrupted
          ELSE UNCHANGED <<runHistory, hvhRunHistory>>]_vars

\* An escape search was interrupted by the unload after it had dequeued a
\* cell at distance 1.
InterruptedAtDistance ==
    /\ pc = "unloaded" /\ gameMode = "escape"
    /\ Len(runHistory) > 0
    /\ LastRecord.interrupted /\ LastRecord.distance = 1 /\ LastRecord.hexCount > 7

-----------------------------------------------------------------------------
(* C26: no second origin *)

\* The step is a synchronous stretch of the live search task.
SearchStep == TaskLive /\ ~suspended

\* C26: an origin is assigned only when there is none and no run is
\* active, and then on the empty grid; while an origin exists or a run is
\* active, the origin changes only by reset() and the grid only by reset()
\* or by the running search.  So a click in those states assigns nothing
\* and leaves the grid and the origin as they are.
OriginSelectedOnce ==
    /\ [][(startHex' # startHex /\ startHex' # <<>>) =>
             (startHex = <<>> /\ ~isRunning /\ GridEmpty)]_vars
    /\ [][(startHex # <<>> \/ isRunning) =>
             /\ startHex' = startHex \/ ResetStep
             /\ hexColors' = hexColors \/ ResetStep \/ SearchStep]_vars

\* The host has the turn while a run from <<0, 0>> waits in sleep(), and the
\* other cell a click can land on is black.
ClickDuringRun ==
    /\ isRunning /\ suspended /\ startHex = <<0, 0>>
    /\ numKey(-1, 1) \in DOMAIN hexColors
    /\ ~hexColors[numKey(-1, 1)]

-----------------------------------------------------------------------------
(* C27: setHexColor on a cell that has a colour *)

\* The call before call j that was made on the cell of call j.
LastCallOn(j) ==
    CHOOSE i \in 1..(j - 1) :
        /\ probe[i].cell = probe[j].cell
        /\ \A k \in (i + 1)..(j - 1) : probe[k].cell # probe[j].cell

\* The colour stored for the cell of call j.
StoredColour(j) == hexColors[numKey(probe[j].cell[1], probe[j].cell[2])]

\* C27: after setHexColor on a cell that had a colour, the cell has the
\* colour it had before the call, which is the colour the last call on the
\* cell returned or stored.  (The error the claim asks for has no
\* counterpart: setHexColor has no throw and returns nothing.)
SetHexColorKeepsColour ==
    \A j \in DOMAIN probe :
        (j = Len(probe) /\ probe[j].op = "setHexColor" /\ probe[j].wasSet) =>
            StoredColour(j) = probe[LastCallOn(j)].color

-----------------------------------------------------------------------------
(* C28: numKey outside the range of the codec *)

\* numKey has returned a key: a number, as every return of numKey is.
ReturnsKey(key) == key \in Int

\* C28: numKey returns no key for a cell outside the range on which the
\* codec is one-to-one (q in -KEY_OFFSET..KEY_OFFSET, r in
\* -KEY_OFFSET..KEY_OFFSET - 1).
NumKeyRejectsOutOfRange ==
    probe.op = "numKey" =>
        /\ ~InKeyRange(probe.a) => ~ReturnsKey(probe.keyA)
        /\ ~InKeyRange(probe.b) => ~ReturnsKey(probe.keyB)

-----------------------------------------------------------------------------
(* The searches run to their end without a yield, on given draws *)

\* What a search leaves: its return value and the store.  A search that
\* needs more draws than it is given ends with result <<>>.
SearchEnd(res, colors, instances) ==
    [result |-> res, hexColors |-> colors, hexInstances |-> instances]

\* The for loop of checkEncirclement from neighbour i on, for the dequeued
\* cell (q, r) at distance dist; st is the frame, the store and the draws.
RECURSIVE EscForNoYield(_, _, _, _, _)
EscForNoYield(st, q, r, dist, i) ==
    IF i = 6 \/ st.starved THEN st
    ELSE IF numKey(NeighborQ(q, i), NeighborR(r, i)) \in st.visited
    THEN EscForNoYield(st, q, r, dist, i + 1)
    ELSE IF st.drawn = Len(st.draws) THEN [st EXCEPT !.starved = TRUE]
    ELSE LET nq == NeighborQ(q, i)
             nr == NeighborR(r, i)
             got == getHexColor(st.hexColors, st.hexInstances, nq, nr,
                                st.draws[st.drawn + 1])
         IN EscForNoYield(
                [st EXCEPT !.visited = @ \cup {numKey(nq, nr)},
                           !.hexColors = got.hexColors,
                           !.hexInstances = got.hexInstances,
                           !.drawn = @ + 1,
                           !.queueQ = IF got.color THEN Append(@, nq) ELSE @,
                           !.queueR = IF got.color THEN Append(@, nr) ELSE @,
                           !.queueDist = IF got.color
                                         THEN Append(@, EscChildDist(dist)) ELSE @],
                q, r, dist, i + 1)

\* The while loop of checkEncirclement.
RECURSIVE EscWhileNoYield(_)
EscWhileNoYield(st) ==
    IF st.starved THEN SearchEnd(<<>>, st.hexColors, st.hexInstances)
    ELSE IF st.queueHead < Len(st.queueQ)
    THEN IF EscReached(st.queueDist[st.queueHead + 1])
         THEN SearchEnd(EscEscaped(st.queueDist[st.queueHead + 1]),
                        st.hexColors, st.hexInstances)
         ELSE EscWhileNoYield(
                  EscForNoYield(
                      [st EXCEPT !.queueHead = EscNextHead(@),
                                 !.maxDistReached =
                                     EscMaxDist(@, st.queueDist[st.queueHead + 1])],
                      st.queueQ[st.queueHead + 1], st.queueR[st.queueHead + 1],
                      st.queueDist[st.queueHead + 1], 0))
    ELSE SearchEnd(EscEncircled(st.maxDistReached), st.hexColors, st.hexInstances)

\* checkEncirclement(startQ, startR) on the store (colors, instances), with
\* draws the outcomes of Math.random() < 0.5 in the order of the calls.
checkEncirclementNoYield(startQ, startR, colors, instances, draws) ==
    EscWhileNoYield([visited |-> {numKey(startQ, startR)},
                     queueQ |-> <<startQ>>, queueR |-> <<startR>>,
                     queueDist |-> <<0>>, queueHead |-> 0, maxDistReached |-> 0,
                     hexColors |-> colors, hexInstances |-> instances,
                     draws |-> draws, drawn |-> 0, starved |-> FALSE])

\* The while (true) loop of hexVsHexCheck and the code behind it.
RECURSIVE HvhLoopNoYield(_)
HvhVerdictNoYield(st, colors, instances, maxD, verdict) ==
    IF verdict # <<>> THEN SearchEnd(verdict, colors, instances)
    ELSE HvhLoopNoYield([st EXCEPT !.hexColors = colors,
                                   !.hexInstances = instances,
                                   !.maxDistReached = maxD,
                                   !.drawn = @ + 1])

HvhJudgeNoYield(st, colors, instances, maxD) ==
    IF HvhReached(maxD)
    THEN SearchEnd([winner |-> "unresolved", distance |-> maxD], colors, instances)
    ELSE HvhVerdictNoYield(st, colors, instances, maxD,
             HvhRoundVerdict(
                 isHexTrapped(colors, st.whiteStartQ, st.whiteStartR, HVH_ESCAPE_DISTANCE),
                 isHexTrapped(colors, st.blackStartQ, st.blackStartR, HVH_ESCAPE_DISTANCE),
                 maxD))

HvhColourNoYield(st, c, nextKey, isWhite) ==
    HvhJudgeNoYield(st, MapSet(st.hexColors, nextKey, isWhite),
                    Append(st.hexInstances,
                           [q |-> c.q, r |-> c.r, color |-> ColorNum(isWhite)]),
                    Max(st.maxDistReached, hexDist(c.q, c.r)))

HvhSelectNoYield(st, boundary, nextKey) ==
    IF Len(boundary) = 0 \/ nextKey = NoKey
    THEN SearchEnd(
             HvhFinalVerdict(
                 isHexTrapped(st.hexColors, st.whiteStartQ, st.whiteStartR,
                              HVH_ESCAPE_DISTANCE),
                 isHexTrapped(st.hexColors, st.blackStartQ, st.blackStartR,
                              HVH_ESCAPE_DISTANCE),
                 st.maxDistReached),
             st.hexColors, st.hexInstances)
    ELSE IF st.drawn = Len(st.draws)
    THEN SearchEnd(<<>>, st.hexColors, st.hexInstances)
    ELSE HvhColourNoYield(st, decodeKey(nextKey), nextKey, st.draws[st.drawn + 1])

HvhBoundaryNoYield(st, boundary) ==
    HvhSelectNoYield(st, boundary, selectNextFrontierHex(boundary))

HvhLoopNoYield(st) ==
    HvhBoundaryNoYield(st, getFrontiers(st.hexColors, MapKeys(st.hexInstances)).boundary)

\* hexVsHexCheck() with startHex = (startQ, startR) on the store, with draws
\* the outcomes of Math.random() < 0.5 in the order of the rounds.
hexVsHexCheckNoYield(startQ, startR, colors, instances, draws) ==
    HvhLoopNoYield([whiteStartQ |-> startQ, whiteStartR |-> startR,
                    blackStartQ |-> startQ + 1, blackStartR |-> startR,
                    maxDistReached |-> 0,
                    hexColors |-> colors, hexInstances |-> instances,
                    draws |-> draws, drawn |-> 0])

-----------------------------------------------------------------------------
(* C29: the yields change nothing *)

\* How many cells handleClick colours in the current mode.
OriginCount == IF gameMode = "hexvshex" THEN 2 ELSE 1

\* The store as handleClick left it, and the draws of the run, read off
\* hexInstances.
OriginInstances == SubSeq(hexInstances, 1, OriginCount)
OriginColors ==
    [k \in {numKey(hexInstances[i].q, hexInstances[i].r) : i \in 1..OriginCount}
        |-> hexColors[k]]
RunDraws ==
    [i \in 1..(Len(hexInstances) - OriginCount) |->
        hexInstances[i + OriginCount].color = 1]

\* The run of the page has ended and its grid has not been reset.
RunDone ==
    /\ pc = "idle" /\ ~isRunning
    /\ startHex # <<>> /\ startBtnDisabled

\* What the run recorded as its outcome, in the shape of the return value.
RecordedResult ==
    IF gameMode = "escape"
    THEN [escaped |-> LastRecord.escaped = "true", distance |-> LastRecord.distance]
    ELSE [winner |-> LastRecord.winner, distance |-> LastRecord.distance]

\* The search of the current mode without a yield, from the origin(s) of
\* the run and on its draws.
NoYieldRun ==
    IF gameMode = "escape"
    THEN checkEncirclementNoYield(startHex[1], startHex[2], OriginColors,
                                  OriginInstances, RunDraws)
    ELSE hexVsHexCheckNoYield(startHex[1], startHex[2], OriginColors,
                              OriginInstances, RunDraws)

\* C29: whatever the speed settings during the run (also changed while it
\* waits) and so wherever it yielded, a run that has ended has recorded the
\* result and the distance, and left the grid, that the same search run to
\* its end without a single yield gives from the same origin on the same
\* draws.
YieldsChangeNothing ==
    RunDone =>
        \A end \in {NoYieldRun} :
            /\ end.result = RecordedResult
            /\ end.hexColors = hexColors
            /\ end.hexInstances = hexInstances

\* A run at a finite speed has ended escaped after colouring both rings.
EscapedAtFiniteSpeed ==
    /\ RunDone /\ gameMode = "escape" /\ speedMultiplier # Infinity
    /\ LastRecord.escaped = "true"
    /\ Len(hexInstances) > 8

-----------------------------------------------------------------------------
(* C30: the life of a run *)

\* The outcomes the page shows.
OutcomeTexts == {"ESCAPED", "ENCIRCLED", "WHITE WINS", "BLACK WINS", "UNRESOLVED"}

\* The search has returned its outcome and nothing has reset the page since:
\* startEscapeCheck waits before its pocket analysis, or the outcome is shown.
Terminal ==
    \/ pc = "esc_pockets"
    \/ pc = "idle" /\ statusDiv.text \in OutcomeTexts

\* C30: from a state in which a search has returned, no step opens a run or
\* puts a search to work, and the grid stays as it is unless reset() empties
\* it and clears the origin; and a search starts only on a grid that holds
\* just the origin selected for it, in a state that is not terminal.
RunLifecycle ==
    /\ [][Terminal =>
            /\ ~RunStarts
            /\ ~SearchGoing'
            /\ \/ hexColors' = hexColors /\ hexInstances' = hexInstances
               \/ ResetStep /\ GridEmpty' /\ startHex' = <<>> /\ ~Terminal']_vars
    /\ [][RunStarts =>
            /\ ~Terminal
            /\ startHex # <<>>
            /\ Len(hexInstances) = OriginCount
            /\ SearchGoing']_vars

\* A second run, started after a reset and a new origin selection, has
\* returned and shows its outcome.
SecondRunReturned ==
    /\ Terminal /\ pc = "idle"
    /\ Len(runHistory) + Len(hvhRunHistory) = 2

-----------------------------------------------------------------------------
(* C31: the queue of the escape search *)

\* The frame of checkEncirclement is in use.
EscFrameLive == pc \in {"esc_while", "esc_for", "esc_pockets"}

\* The cell at place j of the queue is set and white.
QueuedWhite(j) ==
    /\ numKey(esc.queueQ[j], esc.queueR[j]) \in DOMAIN hexColors
    /\ hexColors[numKey(esc.queueQ[j], esc.queueR[j])]

\* C31: while the escape search runs, and when it has returned, every cell
\* of the queue, dequeued or waiting, is white on the grid, and so is the
\* cell whose neighbours the for loop is visiting.
QueueIsFriendly ==
    EscFrameLive =>
        /\ \A j \in 1..Len(esc.queueQ) : QueuedWhite(j)
        /\ pc = "esc_for" =>
              /\ numKey(esc.q, esc.r) \in DOMAIN hexColors
              /\ hexColors[numKey(esc.q, esc.r)]

\* The search has drawn a black neighbour, which it visited and left out of
\* the queue, and has enqueued a white one.
BlackLeftOut ==
    /\ EscFrameLive /\ Len(esc.queueQ) >= 2
    /\ \E k \in esc.visited :
          /\ k \in DOMAIN hexColors /\ ~hexColors[k]
          /\ \A j \in 1..Len(esc.queueQ) : numKey(esc.queueQ[j], esc.queueR[j]) # k

-----------------------------------------------------------------------------
(* checkEncirclement with a larger distance limit, one dequeue at a time *)

\* ESCAPE_DISTANCE of this section, and the white cells a search may draw.
DepthLimit == 3
MaxWhiteDepth == 4

DepthInit == Boot /\ probe = [op |-> "none"]

\* The declarations of checkEncirclement(startHex.q, startHex.r).
DepthCall ==
    /\ BeforeSearch
    /\ probe.op = "none"
    /\ startHex # <<>> /\ gameMode = "escape"
    /\ probe' = [op |-> "checkEncirclement", returned |-> FALSE,
                 visited |-> {numKey(startHex[1], startHex[2])},
                 queueQ |-> <<startHex[1]>>, queueR |-> <<startHex[2]>>,
                 queueDist |-> <<0>>, queueHead |-> 0, maxDistReached |-> 0]
    /\ UNCHANGED <<gridVars, hostVars, uiVars, histVars, taskVars>>

\* The frame after the for loop over the neighbours of the dequeued cell.
DepthFrame(st) ==
    [op |-> "checkEncirclement", returned |-> FALSE,
     visited |-> st.visited, queueQ |-> st.queueQ, queueR |-> st.queueR,
     queueDist |-> st.queueDist, queueHead |-> st.queueHead,
     maxDistReached |-> st.maxDistReached]

\* One pass of the while loop: the dequeue, the test of the distance and the
\* for loop, with draws the outcomes of Math.random() < 0.5 of this pass.
\* The draws the pass does not use are taken to be FALSE, so that each
\* outcome of the pass is produced once.
DepthDequeue ==
    /\ probe.op = "checkEncirclement" /\ ~probe.returned
    /\ IF probe.queueHead < Len(probe.queueQ)
       THEN IF probe.queueDist[probe.queueHead + 1] >= DepthLimit
            THEN /\ probe' = [probe EXCEPT !.returned = TRUE,
                                           !.queueHead = EscNextHead(@),
                                           !.maxDistReached =
                                               EscMaxDist(@, probe.queueDist[probe.queueHead + 1])]
                 /\ UNCHANGED gridVars
            ELSE \E draws \in [1..6 -> BOOLEAN] :
                 \E st \in {EscForNoYield(
                                [visited |-> probe.visited,
                                 queueQ |-> probe.queueQ, queueR |-> probe.queueR,
                                 queueDist |-> probe.queueDist,
                                 queueHead |-> EscNextHead(probe.queueHead),
                                 maxDistReached |->
                                     EscMaxDist(probe.maxDistReached,
                                                probe.queueDist[probe.queueHead + 1]),
                                 hexColors |-> hexColors, hexInstances |-> hexInstances,
                                 draws |-> draws, drawn |-> 0, starved |-> FALSE],
                                probe.queueQ[probe.queueHead + 1],
                                probe.queueR[probe.queueHead + 1],
                                probe.queueDist[probe.queueHead + 1], 0)} :
                    /\ st.drawn = 6 \/ \A n \in (st.drawn + 1)..6 : ~draws[n]
                    /\ WhiteDrawn(st.hexInstances) <= MaxWhiteDepth
                    /\ hexColors' = st.hexColors
                    /\ hexInstances' = st.hexInstances
                    /\ probe' = DepthFrame(st)
       ELSE /\ probe' = [probe EXCEPT !.returned = TRUE]
            /\ UNCHANGED gridVars
    /\ UNCHANGED <<hostVars, uiVars, histVars, taskVars>>

DepthNext ==
    \/ \E hex \in ClickCells : HandleClick(hex)
    \/ DepthCall
    \/ DepthDequeue

SpecDepth == DepthInit /\ [][DepthNext]_vars

-----------------------------------------------------------------------------
(* C32: the distance of a dequeued cell *)

\* The white cells a path of at most n steps over white cells reaches from
\* the origin.
RECURSIVE WhiteWithin(_)
WhiteWithin(n) ==
    IF n = 0 THEN {<<startHex[1], startHex[2]>>}
    ELSE LET near == WhiteWithin(n - 1)
         IN near \cup {c \in UNION {Around(p) : p \in near} : IsSet(c) /\ ColourOf(c)}

\* The length of a shortest path over white cells from the origin to c, a
\* white cell such a path reaches.
FriendlyDepth(c) ==
    CHOOSE n \in 0..(DepthLimit + 1) :
        /\ c \in WhiteWithin(n)
        /\ n > 0 => c \notin WhiteWithin(n - 1)

DepthSearching == probe.op = "checkEncirclement"

\* C32: at every point of the search each cell dequeued so far is reached
\* from the origin by a path over white cells, and the distance dequeued
\* with it is the length of a shortest such path on the grid as it stands.
DistanceIsFriendlyDepth ==
    DepthSearching =>
        \A j \in 1..probe.queueHead :
            /\ <<probe.queueQ[j], probe.queueR[j]>> \in WhiteWithin(DepthLimit + 1)
            /\ probe.queueDist[j] = FriendlyDepth(<<probe.queueQ[j], probe.queueR[j]>>)

\* A cell has been dequeued whose distance is larger than its hex distance
\* from the origin: the straight way to it is barred by a black cell.
DequeuedByDetour ==
    /\ DepthSearching
    /\ \E j \in 1..probe.queueHead :
          probe.queueDist[j] >
              hexDist(probe.queueQ[j] - startHex[1], probe.queueR[j] - startHex[2])

-----------------------------------------------------------------------------
(* C33: the cell a battle round colours *)

\* A round of the battle is taken.
BattleRound == pc = "hvh_loop" /\ ~suspended

\* The unset cell c has a white and a black cell next to it.
TouchesBoth(c) ==
    /\ \E d \in Around(c) : IsSet(d) /\ ColourOf(d)
    /\ \E d \in Around(c) : IsSet(d) /\ ~ColourOf(d)

\* The step gives a colour to the cell c, which had none, and to no other
\* cell, and changes no colour.
ColoursOnly(c) ==
    /\ ~IsSet(c)
    /\ DOMAIN hexColors' = DOMAIN hexColors \cup {numKey(c[1], c[2])}
    /\ \A k \in DOMAIN hexColors : hexColors'[k] = hexColors[k]
    /\ Len(hexInstances') = Len(hexInstances) + 1
    /\ SubSeq(hexInstances', 1, Len(hexInstances)) = hexInstances
    /\ hexInstances'[Len(hexInstances')].q = c[1]
    /\ hexInstances'[Len(hexInstances')].r = c[2]

\* C33: a round of the battle either returns and leaves the grid as it is,
\* or colours exactly one cell, which was unset and had a white and a black
\* cell next to it before the round.
RoundColoursBoundaryCell ==
    [][BattleRound =>
          \/ pc' = "idle" /\ hexColors' = hexColors /\ hexInstances' = hexInstances
          \/ \E c \in Field : TouchesBoth(c) /\ ColoursOnly(c)]_vars

\* A battle has coloured cells and goes on, with an unset cell next to
\* white cells only and one next to black cells only on the grid.
BattleLeftOneColourCells ==
    /\ pc = "hvh_loop" /\ gameMode = "hexvshex"
    /\ Len(hexInstances) >= 4
    /\ \E c \in Field : /\ ~IsSet(c) /\ ~TouchesBoth(c)
                         /\ \E d \in Around(c) : IsSet(d) /\ ColourOf(d)
    /\ \E c \in Field : /\ ~IsSet(c) /\ ~TouchesBoth(c)
                         /\ \E d \in Around(c) : IsSet(d) /\ ~ColourOf(d)

-----------------------------------------------------------------------------
(* Origin selection through the canvas: pan, click, pixelToAxial *)

BASE_HEX_SIZE == 25

\* zoomLevel as the page sets it at load; the zoom handlers are left out.
zoomLevel == 1

getHexSize == BASE_HEX_SIZE * zoomLevel

\* Math.round(n / d) for d > 0: the nearest integer, halves upwards.
MathRound(n, d) == (2 * n + d) \div (2 * d)

\* axialRound(q, r) for q = qn / d and r = rn / d.
axialRound(qn, rn, d) ==
    LET sn == 0 - qn - rn
        rq == MathRound(qn, d)
        rr == MathRound(rn, d)
        rs == MathRound(sn, d)
        qDiff == Abs(rq * d - qn)
        rDiff == Abs(rr * d - rn)
        sDiff == Abs(rs * d - sn)
    IN IF qDiff > rDiff /\ qDiff > sDiff THEN <<0 - rr - rs, rr>>
       ELSE IF rDiff > sDiff THEN <<rq, 0 - rq - rs>>
       ELSE <<rq, rr>>

\* pixelToAxial(px, py), with Math.sqrt(3) taken as 1732 / 1000:
\* q = (px * sqrt(3) / 3 - py / 3) / hexSize and r = (py * 2 / 3) / hexSize,
\* both over the denominator 3000 * hexSize.
pixelToAxial(px, py) ==
    axialRound(1732 * px - 1000 * py, 2000 * py, 3000 * getHexSize)

\* Where the mouse goes down and up without moving, as
\* e.clientX - rect.left - canvas.width / 2 and the same for y: the centre
\* of the canvas and a point one cell down and to the left of it.
ClickPixels == {<<0, 0>>, <<-22, 38>>}

\* What one drag of the canvas adds to panOffset, and how many drags are made.
DragSteps == {<<0, 75>>, <<0, -75>>, <<43, 0>>, <<-43, 0>>}
MaxDrags == 3

PanInit == Boot /\ probe = [op |-> "pan", panOffset |-> <<0, 0>>, drags |-> 0]

\* mousedown, mousemove with the button held over more than 3 pixels, and
\* mouseup: the canvas is panned and handleClick is not called.
PanDrag(d) ==
    /\ HostTurn
    /\ probe.drags < MaxDrags
    /\ probe' = [probe EXCEPT !.panOffset = <<@[1] + d[1], @[2] + d[2]>>,
                              !.drags = @ + 1]
    /\ UNCHANGED <<gridVars, hostVars, uiVars, histVars, taskVars>>

\* mousedown and mouseup in place: handleClick(e) on the cell under the mouse.
PanClick(pixel) ==
    HandleClick(pixelToAxial(pixel[1] - probe.panOffset[1],
                             pixel[2] - probe.panOffset[2]))

PanNext ==
    \/ \E d \in DragSteps : PanDrag(d)
    \/ \E pixel \in ClickPixels : PanClick(pixel)
    \/ Reset
    \/ \E mode \in GameModes : SetMode(mode)

SpecPan == PanInit /\ [][PanNext]_vars

-----------------------------------------------------------------------------
(* C34: the coordinates given to numKey *)

\* The range on which numKey gives each cell a key of its own.
InCodecRange(q, r) ==
    /\ q \in (0 - KEY_OFFSET)..KEY_OFFSET
    /\ r \in (0 - KEY_OFFSET)..(KEY_OFFSET - 1)

\* C34: every cell that has been given to numKey to be stored lies in the
\* range of the codec, and no two cells of the grid share a key.
KeysWithinCodecRange ==
    /\ \A i \in DOMAIN hexInstances :
          InCodecRange(hexInstances[i].q, hexInstances[i].r)
    /\ \A i, j \in DOMAIN hexInstances :
          numKey(hexInstances[i].q, hexInstances[i].r)
              = numKey(hexInstances[j].q, hexInstances[j].r)
          => (hexInstances[i].q = hexInstances[j].q /\ hexInstances[i].r = hexInstances[j].r)

-----------------------------------------------------------------------------
(* The batch size on its own: two throttled passes side by side *)

\* The largest frontier (exposedCount, or boundary.size + 1) of a pass.
MaxExposed == 24

\* The finite speeds of the slider, in quarters: 0.25x to 4x.
FiniteSpeeds == {sliderToSpeed(val) : val \in 0..4}

BatchInit == Boot /\ probe = [op |-> "none"]

\* batchSize of a pass with the frontier exposedCount at the speed speed.
BatchPass(exposedCount, speed) ==
    [exposedCount |-> exposedCount, speed |-> speed,
     batchSize |-> BatchSize(exposedCount, speed)]

\* A first pass.
BatchFirst ==
    /\ probe.op = "none"
    /\ \E exposedCount \in 1..MaxExposed, speed \in FiniteSpeeds :
          probe' = [op |-> "one", a |-> BatchPass(exposedCount, speed)]
    /\ UNCHANGED <<gridVars, hostVars, uiVars, histVars, taskVars>>

\* A second pass, to be set against the first.
BatchSecond ==
    /\ probe.op = "one"
    /\ \E exposedCount \in 1..MaxExposed, speed \in FiniteSpeeds :
          probe' = [op |-> "two", a |-> probe.a, b |-> BatchPass(exposedCount, speed)]
    /\ UNCHANGED <<gridVars, hostVars, uiVars, histVars, taskVars>>

BatchNext ==
    \/ BatchFirst
    \/ BatchSecond

SpecBatch == BatchInit /\ [][BatchNext]_vars

-----------------------------------------------------------------------------
(* C35: the batch size, the frontier and the speed *)

TwoPasses == probe.op = "two"

\* C35 as stated: of two throttled passes at the same speed the one with
\* the larger frontier has the smaller or the same batch size, and of two
\* with the same frontier the faster one has the larger or the same.
BatchShrinksWithFrontier ==
    TwoPasses =>
        /\ (probe.a.speed = probe.b.speed /\ probe.a.exposedCount < probe.b.exposedCount)
              => probe.b.batchSize <= probe.a.batchSize
        /\ (probe.a.exposedCount = probe.b.exposedCount /\ probe.a.speed < probe.b.speed)
              => probe.b.batchSize >= probe.a.batchSize

\* C35, amended: the batch size is at least 1; of two throttled passes at
\* the same speed the one with the larger frontier has the larger or the
\* same batch size, and of two with the same frontier the faster one has
\* the larger or the same.
BatchGrowsWithFrontier ==
    TwoPasses =>
        /\ probe.a.batchSize >= 1 /\ probe.b.batchSize >= 1
        /\ (probe.a.speed = probe.b.speed /\ probe.a.exposedCount < probe.b.exposedCount)
              => probe.b.batchSize >= probe.a.batchSize
        /\ (probe.a.exposedCount = probe.b.exposedCount /\ probe.a.speed < probe.b.speed)
              => probe.b.batchSize >= probe.a.batchSize

\* Two passes at the same speed: the frontier of the second is larger and
\* so is its batch size.
LargerFrontierLargerBatch ==
    /\ TwoPasses
    /\ probe.a.speed = probe.b.speed
    /\ probe.a.exposedCount < probe.b.exposedCount
    /\ probe.a.batchSize < probe.b.batchSize

-----------------------------------------------------------------------------
(* C36: the origin is selected on an empty grid *)

\* The step selects an origin.
OriginSelected == startHex = <<>> /\ startHex' # <<>>

\* C36: as long as no origin is selected the grid is empty, and a step that
\* selects an origin stores one cell in escape mode and two in battle mode,
\* each of them unset before the step and each with a key of its own, so
\* that no colour is overwritten.
OriginOnUnsetCells ==
    /\ [](startHex = <<>> => GridEmpty)
    /\ [][OriginSelected =>
            /\ Len(hexInstances') = (IF gameMode = "hexvshex" THEN 2 ELSE 1)
            /\ Cardinality(DOMAIN hexColors') = Len(hexInstances')
            /\ \A i \in DOMAIN hexInstances' :
                  /\ numKey(hexInstances'[i].q, hexInstances'[i].r) \notin DOMAIN hexColors
                  /\ numKey(hexInstances'[i].q, hexInstances'[i].r) \in DOMAIN hexColors'
            /\ \A k \in DOMAIN hexColors :
                  k \in DOMAIN hexColors' /\ hexColors'[k] = hexColors[k]]_vars

\* After a completed run and a reset an origin has been selected again,
\* this time for a battle.
OriginSelectedAfterRun ==
    /\ startHex # <<>> /\ pc = "idle" /\ ~isRunning /\ ~startBtnDisabled
    /\ gameMode = "hexvshex" /\ Len(hexInstances) = 2
    /\ Len(runHistory) = 1 /\ Len(hvhRunHistory) = 0
    /\ ~runHistory[1].inProgress /\ ~runHistory[1].interrupted

-----------------------------------------------------------------------------
(* C37: the escape search once more on the grid it left *)

\* checkEncirclement from the origin of the run on the grid as it stands,
\* with every draw it might make coming out as isWhite.
SearchAgain(isWhite) ==
    checkEncirclementNoYield(startHex[1], startHex[2], hexColors, hexInstances,
                             [i \in 1..Len(hexInstances) |-> isWhite])

\* C37: when an escape search of the page has ended, checkEncirclement from
\* the same origin on the grid it left returns the recorded result and
\* distance and leaves hexColors and hexInstances as they are, whatever
\* the random source would give: it draws no colour.
SecondSearchSameResult ==
    (RunDone /\ gameMode = "escape") =>
        \A isWhite \in BOOLEAN :
            \A again \in {SearchAgain(isWhite)} :
                /\ again.result = RecordedResult
                /\ again.hexColors = hexColors
                /\ again.hexInstances = hexInstances

\* An escape search has ended encircled, with the six neighbours of the
\* origin and more coloured.
EncircledRunEnded ==
    /\ RunDone /\ gameMode = "escape"
    /\ LastRecord.escaped = "false"
    /\ Len(hexInstances) >= 8

-----------------------------------------------------------------------------
(* C38: findEncircledPockets leaves the grid alone *)

=============================================================================
